---- MODULE Spec2Model ----
(***************************************************************************)
(* Document processing pipeline (backend/agents/simple_workflow.py), its   *)
(* result store (backend/services/storage.py), the upload route            *)
(* (backend/routers/document_routes.py), the LLM enhancement service       *)
(* (backend/services/llm_service.py) and the rate limited chunk scheduler  *)
(* (backend/utils/text_chunking.py).                                       *)
(*                                                                         *)
(* Confidences are scaled by 10 (0.8 is 8), box coordinates by 100.        *)
(* Timestamps inside log lines are dropped: a log line is its fixed text.  *)
(***************************************************************************)
EXTENDS Integers, Sequences, FiniteSets, TLC

\* ---------------------------------------------------------------- bounds
\* uploads accepted during one run of the service
MaxUploads == 2
\* text fragments of the large document the extractor may return
NumBigFrags == 21
\* how many of them lie on page 1 (the rest on page 2)
BigPage1Frags == 17
\* chunks handed to one call of process_chunks_with_rate_limit
MaxChunks == 3
\* largest max_concurrent tried
MaxConcurrent == 2
MaxCorrectionRequests == 2
MaxFrags == 3
MaxTextLen == 7
MaxChunkSize == 4
MaxElements == 7
MaxPerChunk == 6
MaxPartials == 2

\* ------------------------------------------------------ program constants
\* chunk_elements(elements, max_elements_per_chunk=20)
MaxElementsPerChunk == 20
\* DocumentProcessingState.confidence_threshold = 0.7
ConfidenceThreshold == 7

\* --------------------------------------------------------------- values
\* Optional[str] with the value None
NoMessage == "<None>"
\* parent_id None
NoId == <<"none", 0, 0>>

PENDING == "pending"
PARSING == "parsing"
STRUCTURING == "structuring"
VALIDATING == "validating"
HIGHLIGHTING == "highlighting"
STORING == "storing"
COMPLETED == "completed"
FAILED == "failed"

ProcessingStatus ==
    {PENDING, PARSING, STRUCTURING, VALIDATING, HIGHLIGHTING, STORING, COMPLETED, FAILED}

\* str(e) of the exceptions a stage body may raise (an exception built
\* without arguments has the empty message)
ErrorMessages == {"", "stage error"}

\* content: Union[str, Dict]; a str has kind "str", a table dict kind "dict"
StrContent(s) == [kind |-> "str", text |-> s, rows |-> <<>>]
DictContent(rows) == [kind |-> "dict", text |-> "", rows |-> rows]

BoundingBox(x, y, w, h) == [x |-> x, y |-> y, width |-> w, height |-> h]

\* corrections: Optional[Dict] with the value None
NoCorrections ==
    [present |-> FALSE, original_content |-> StrContent(""), corrected_at |-> FALSE,
     notes |-> ""]

\* ExtractedElement(...) with the defaults of models/document.py
ExtractedElement(id, type, content, parent, page, box, conf) ==
    [id |-> id, type |-> type, content |-> content, parent_id |-> parent,
     children_ids |-> <<>>, page_number |-> page, bounding_box |-> box,
     grounding_confidence |-> conf, highlight_color |-> "",
     confidence |-> conf, validated |-> FALSE, corrections |-> NoCorrections]

\* ------------------------------------------------- extractor's fragments
\* a raw fragment: page 0 stands for a missing 'page' key
TextFrag(page, text) ==
    [type |-> "text", page |-> page, text |-> text, rows |-> <<>>,
     has_bbox |-> FALSE, bbox |-> BoundingBox(0, 0, 0, 0),
     has_confidence |-> FALSE, confidence |-> 0]

OcrFrag(page, text, conf) ==
    [type |-> "text", page |-> page, text |-> text, rows |-> <<>>,
     has_bbox |-> TRUE, bbox |-> BoundingBox(10, 20, 30, 4),
     has_confidence |-> TRUE, confidence |-> conf]

TableFrag(page, rows) ==
    [type |-> "table", page |-> page, text |-> "", rows |-> rows,
     has_bbox |-> FALSE, bbox |-> BoundingBox(0, 0, 0, 0),
     has_confidence |-> FALSE, confidence |-> 0]

SmallDoc == <<OcrFrag(1, "abc", 5), TextFrag(0, "  "), TableFrag(2, <<"h">>)>>

BigDoc ==
    [i \in 1..NumBigFrags |-> TextFrag(IF i <= BigPage1Frags THEN 1 ELSE 2, "abc")]

\* what processor.process_document may return as raw_elements
RawInputs == {SmallDoc, BigDoc}

\* the fragments the extractor emits: text with or without the key 'page',
\* blank and empty text, OCR text with a box and a confidence below and above
\* the default, tables with and without rows
FragKinds ==
    {TextFrag(0, "  "), TextFrag(1, "abc"), OcrFrag(1, "abc", 9), OcrFrag(2, "", 5),
     TableFrag(2, <<"h">>), TableFrag(0, <<>>)}

\* every list of at most MaxFrags such fragments
FragLists == UNION {[1..n -> FragKinds] : n \in 0..MaxFrags}

\* ------------------------------------------------ _structure_step: build
\* element.get('page', 1)
PageNum(frag) == IF frag.page = 0 THEN 1 ELSE frag.page

\* keys of the dict `pages`, in insertion order
RECURSIVE PageOrder(_, _)
PageOrder(raw, seen) ==
    IF Len(raw) = 0 THEN seen
    ELSE LET p == PageNum(Head(raw))
         IN PageOrder(Tail(raw),
                      IF \E i \in 1..Len(seen) : seen[i] = p THEN seen ELSE Append(seen, p))

PageId(p) == <<"page", p, 0>>
TextId(p, i) == <<"text", p, i>>
TableId(p, i) == <<"table", p, i>>

TextElement(p, i, frag) ==
    ExtractedElement(TextId(p, i), "text", StrContent(frag.text), PageId(p), p,
                     IF frag.has_bbox THEN frag.bbox ELSE BoundingBox(0, 0, 10, 5),
                     IF frag.has_confidence THEN frag.confidence ELSE 8)

TableElement(p, i, frag) ==
    ExtractedElement(TableId(p, i), "table", DictContent(frag.rows), PageId(p), p,
                     IF frag.has_bbox THEN frag.bbox ELSE BoundingBox(0, 0, 80, 30),
                     9)

\* the page container and the elements of one page, children wired
PageElements(p, raw) ==
    LET texts == SelectSeq(raw, LAMBDA f : PageNum(f) = p /\ f.type = "text")
        tables == SelectSeq(raw, LAMBDA f : PageNum(f) = p /\ f.type = "table")
        textEls == [i \in 1..Len(texts) |-> TextElement(p, i - 1, texts[i])]
        tableEls == [i \in 1..Len(tables) |-> TableElement(p, i - 1, tables[i])]
        kids == textEls \o tableEls
        page == [ExtractedElement(PageId(p), "page", StrContent("Page"), NoId, p,
                                  BoundingBox(0, 0, 100, 100), 10)
                   EXCEPT !.children_ids = [i \in 1..Len(kids) |-> kids[i].id]]
    IN <<page>> \o kids

RECURSIVE ConcatPages(_, _)
ConcatPages(order, raw) ==
    IF Len(order) = 0 THEN <<>>
    ELSE PageElements(Head(order), raw) \o ConcatPages(Tail(order), raw)

\* a tree with a page element for every fragment
BuildTreePagePerFragment(raw) ==
    ConcatPages([i \in 1..Len(raw) |-> PageNum(raw[i])], raw)

\* the locally built tree
BuildTree(raw) == ConcatPages(PageOrder(raw, <<>>), raw)

\* ------------------------------------------------------- chunk_elements
\* a chunk that is never large enough to be closed at a page change
GettingLargeNever(current_chunk, max) == FALSE

\* line 105: len(current_chunk) > max_elements_per_chunk * 0.8
GettingLarge(current_chunk, max) == 10 * Len(current_chunk) > 8 * max

RECURSIVE ChunkLoop(_, _, _, _, _, _)
ChunkLoop(elements, i, chunks, current_chunk, current_page, max) ==
    IF i > Len(elements)
    THEN IF Len(current_chunk) > 0 THEN Append(chunks, current_chunk) ELSE chunks
    ELSE LET element == elements[i]
             page_num == element.page_number
             newPage == page_num # current_page /\ GettingLarge(current_chunk, max)
             chunks1 == IF newPage THEN Append(chunks, current_chunk) ELSE chunks
             chunk1 == Append(IF newPage THEN <<>> ELSE current_chunk, element)
             full == Len(chunk1) >= max
         IN ChunkLoop(elements, i + 1,
                      IF full THEN Append(chunks1, chunk1) ELSE chunks1,
                      IF full THEN <<>> ELSE chunk1,
                      page_num, max)

\* chunk_elements without its last chunk
ChunkElementsDropsLastChunk(elements, max) ==
    IF Len(elements) <= max THEN <<elements>>
    ELSE LET chunks == ChunkLoop(elements, 1, <<>>, <<>>, 0, max)
         IN SubSeq(chunks, 1, Len(chunks) - 1)

\* current_page None is page 0
ChunkElements(elements, max) ==
    IF Len(elements) <= max THEN <<elements>>
    ELSE ChunkLoop(elements, 1, <<>>, <<>>, 0, max)

\* The trees and the chunks of the inputs, computed once: the tree
\* _structure_step builds from each input the extractor may return, and the
\* chunks chunk_elements makes of each such tree.
LocalTree ==
    [raw \in RawInputs |-> BuildTree(raw)] @@ [raw \in FragLists |-> BuildTree(raw)]

ElementChunks ==
    [elements \in {LocalTree[raw] : raw \in RawInputs \cup FragLists} |->
        ChunkElements(elements, MaxElementsPerChunk)]

\* ------------------------------------ llm_service: structure enhancement
\* what one call of the reasoning service does for one chunk:
\*   raise            the API call raises
\*   unparseable      the reply is not JSON (JSONDecodeError), or it is JSON
\*                    that is neither a list nor has the key "elements"
\*   echo             the chunk's elements, unchanged
\*   empty            an empty list of elements
\*   nonlist          a JSON object whose "elements" is not a list
\*   invalid          a list holding a dict that lacks a required field
\*   retyped          the chunk's elements, tables typed as form fields
\*   regrouped        the chunk's elements, tables under a section not listed
StructOutcomes ==
    {"raise", "unparseable", "echo", "empty", "nonlist", "invalid", "retyped",
     "regrouped"}

\* a dict that ExtractedElement(**elem) rejects: the key 'id' is missing
BadItem ==
    ExtractedElement(NoId, "text", StrContent(""), NoId, 1, BoundingBox(0, 0, 0, 0), 0)

\* the value a chunk's worker returns: a list of dicts, or something else
ListResult(items) == [is_list |-> TRUE, items |-> items]
NonListResult == [is_list |-> FALSE, items |-> <<>>]

Retyped(chunk) ==
    [i \in 1..Len(chunk) |->
        IF chunk[i].type = "table" THEN [chunk[i] EXCEPT !.type = "form_field"]
        ELSE chunk[i]]

\* a reply that follows the prompt's "Identify parent-child relationships":
\* the tables are put under a section that the reply does not list
SectionId == <<"section", 1, 0>>

Regrouped(chunk) ==
    [i \in 1..Len(chunk) |->
        IF chunk[i].type = "table" THEN [chunk[i] EXCEPT !.parent_id = SectionId]
        ELSE chunk[i]]

\* process_structure_chunk answering a reply it cannot parse with an empty list
ProcessStructureChunkDropsUnparsed(element_chunk, outcome) ==
    CASE outcome = "unparseable" -> ListResult(<<>>)
      [] outcome = "echo" -> ListResult(element_chunk)
      [] outcome = "empty" -> ListResult(<<>>)
      [] outcome = "nonlist" -> NonListResult
      [] outcome = "invalid" -> ListResult(<<BadItem>> \o element_chunk)
      [] outcome = "retyped" -> ListResult(Retyped(element_chunk))
      [] outcome = "regrouped" -> ListResult(Regrouped(element_chunk))

\* process_structure_chunk, for an outcome other than "raise"
ProcessStructureChunk(element_chunk, outcome) ==
    CASE outcome = "unparseable" -> ListResult(element_chunk)
      [] outcome = "echo" -> ListResult(element_chunk)
      [] outcome = "empty" -> ListResult(<<>>)
      [] outcome = "nonlist" -> NonListResult
      [] outcome = "invalid" -> ListResult(<<BadItem>> \o element_chunk)
      [] outcome = "retyped" -> ListResult(Retyped(element_chunk))
      [] outcome = "regrouped" -> ListResult(Regrouped(element_chunk))

\* enhanced_elements.extend(chunk) for every chunk that is a list
RECURSIVE CombineChunks(_)
CombineChunks(enhanced_chunks) ==
    IF Len(enhanced_chunks) = 0 THEN <<>>
    ELSE (IF Head(enhanced_chunks).is_list THEN Head(enhanced_chunks).items ELSE <<>>)
         \o CombineChunks(Tail(enhanced_chunks))

\* the permutations of 1..n: the orders in which n tasks may complete
Orders(n) == {o \in [1..n -> 1..n] : \A i, j \in 1..n : o[i] = o[j] => i = j}

\* enhance_document_structure. has_key: OPENAI_API_KEY is set; outcomes[i]:
\* what the service does for chunk i; order: the completion order of the
\* chunks' tasks. A raising worker makes process_chunks_with_rate_limit
\* raise, and the except clause returns the elements given.
\* element_chunks is chunk_elements(elements, 20).
EnhanceDocumentStructure(elements, element_chunks, has_key, outcomes, order) ==
    IF ~has_key THEN elements
    ELSE LET n == Len(element_chunks)
         IN IF \E i \in 1..n : outcomes[i] = "raise" THEN elements
            ELSE CombineChunks([j \in 1..n |->
                    ProcessStructureChunk(element_chunks[order[j]], outcomes[order[j]])])

\* ExtractedElement(**elem) succeeds
SchemaValid(elem) == elem.id # NoId

\* _structure_step, lines 235-249: the element list and whether the log
\* line "Enhanced structure using LLM" is appended
ApplyEnhancement(extracted_elements, enhanced_elements) ==
    IF Len(enhanced_elements) > 0
       /\ \A i \in 1..Len(enhanced_elements) : SchemaValid(enhanced_elements[i])
    THEN [elements |-> enhanced_elements, logged |-> TRUE]
    ELSE [elements |-> extracted_elements, logged |-> FALSE]

\* --------------------------------------------------------- _validate_step
\* len(content.strip()) > 0 for the texts of the model
NonBlank(s) == s \notin {"", " ", "  "}

\* the basic validation rule for one element
\* a rule that leaves every confidence as it is
ValidateElementKeepsConfidence(element, threshold) ==
    [element EXCEPT !.validated = (element.confidence >= threshold)]

ValidateElement(element, threshold) ==
    LET conf ==
          CASE element.type = "text" ->
                 IF element.content.kind = "str" /\ NonBlank(element.content.text)
                 THEN IF element.confidence > 8 THEN element.confidence ELSE 8
                 ELSE 3
            [] element.type = "table" ->
                 IF element.content.kind = "dict" /\ Len(element.content.rows) > 0
                 THEN IF element.confidence > 9 THEN element.confidence ELSE 9
                 ELSE 4
            [] element.type = "page" -> 10
            [] OTHER -> element.confidence
    IN [element EXCEPT !.confidence = conf, !.validated = (conf >= threshold)]

BasicValidation(elements, threshold) ==
    [i \in 1..Len(elements) |-> ValidateElement(elements[i], threshold)]

\* validate_extraction's fallback value
FallbackValidation ==
    [validated |-> TRUE, confidence |-> 8, has_elements |-> FALSE, elements |-> <<>>]

\* what the service would answer when asked to validate the elements: a
\* list of dicts with an id and a confidence; here nothing, or a confidence
\* of 0.2 for the first element
ValidationReplies(elements) ==
    {<<>>} \cup (IF Len(elements) > 0
                 THEN {<<[id |-> elements[1].id, confidence |-> 2]>>}
                 ELSE {})

\* validate_extraction not called yet, or called without OPENAI_API_KEY
NoValidationCall == [available |-> FALSE, reply |-> <<>>]

\* validate_extraction(text, elements_dict): it is given a list, so without
\* a key it returns the fallback, and with a key extracted_data.get raises
\* AttributeError (line 154) before the service is asked, and the except
\* clause returns the fallback: reply is never read
ValidateExtraction(elements_dict, has_key, reply) ==
    IF ~has_key THEN FallbackValidation ELSE FallbackValidation

\* _validate_step, lines 318-341: the overlay of the service's confidences.
\* Without the key "elements" line 341 reads the unbound updated_count, and
\* the except clause of line 342 drops the log line.
ApplyValidation(elements, validation_results, threshold) ==
    IF validation_results.has_elements
    THEN [elements |->
            [i \in 1..Len(elements) |->
               LET hits == {k \in 1..Len(validation_results.elements) :
                              validation_results.elements[k].id = elements[i].id}
               IN IF hits = {} \/ \E m \in (i + 1)..Len(elements) : elements[m].id = elements[i].id
                  THEN elements[i]
                  ELSE LET v == validation_results.elements[CHOOSE k \in hits :
                                                            \A m \in hits : m <= k]
                       IN [elements[i] EXCEPT !.confidence = v.confidence,
                                              !.validated = (v.confidence >= threshold)]],
          logged |-> TRUE]
    ELSE [elements |-> elements, logged |-> FALSE]

\* -------------------------------------------------------- _highlight_step
GetHighlightColor(element_type) ==
    CASE element_type = "text" -> "#3B82F6"
      [] element_type = "table" -> "#10B981"
      [] element_type = "form_field" -> "#F59E0B"
      [] element_type = "image" -> "#8B5CF6"
      [] element_type = "header" -> "#EF4444"
      [] OTHER -> "#6B7280"

Highlighted(elements) ==
    [i \in 1..Len(elements) |->
        IF elements[i].type # "page"
        THEN [elements[i] EXCEPT !.highlight_color = GetHighlightColor(elements[i].type)]
        ELSE elements[i]]

\* ------------------------------------------------------------ the store
\* structured_data: Optional[Dict] with the value None
NoStructuredData ==
    [present |-> FALSE, total_elements |-> 0, text_elements |-> 0,
     table_elements |-> 0, validated_elements |-> 0]

\* ProcessingResult(...)
ProcessingResult(transaction_id, status, elements, log) ==
    [transaction_id |-> transaction_id, status |-> status,
     extracted_elements |-> elements, error_message |-> NoMessage,
     processing_log |-> log, structured_data |-> NoStructuredData]

\* a store_result that keeps the result an id already has
StoreResultKeepsFirst(res, result) ==
    [id \in DOMAIN res \cup {result.transaction_id} |->
        IF id \in DOMAIN res THEN res[id] ELSE result]

\* InMemoryStorage.store_result: self.results[result.transaction_id] = result
StoreResult(res, result) ==
    [id \in DOMAIN res \cup {result.transaction_id} |->
        IF id = result.transaction_id THEN result ELSE res[id]]

\* InMemoryStorage.store_result, lines 24-38: the value returned. The
\* result is in self.results before the file is written (line 22); when
\* the write raises, the except clause returns False.
StoreResultOk(can_write) == can_write

\* InMemoryStorage.get_result: the id is in self.results
HasResult(res, transaction_id) == transaction_id \in DOMAIN res

\* the value None of get_result
NoResult == [transaction_id |-> 0]

\* InMemoryStorage.get_result
GetResult(res, transaction_id) ==
    IF HasResult(res, transaction_id) THEN res[transaction_id] ELSE NoResult

\* an update_status that writes the status to every result
UpdateStatusOfAll(res, transaction_id, status, message) ==
    [id \in DOMAIN res |-> [res[id] EXCEPT !.status = status]]

\* InMemoryStorage.update_status: nothing happens when the id has no result;
\* the message is logged only when it is given and not empty
UpdateStatus(res, transaction_id, status, message) ==
    IF HasResult(res, transaction_id)
    THEN StoreResult(res,
            [res[transaction_id] EXCEPT
               !.status = status,
               !.processing_log =
                   IF message # NoMessage /\ message # "" THEN Append(@, message) ELSE @])
    ELSE res

\* ---------------------------------------------------------------- state
VARIABLES
    results,      \* storage.results: transaction id -> ProcessingResult
    uploads,      \* the UploadResponses sent, in order of acceptance
    pc,           \* where the background task of each upload stands
    state,        \* the DocumentProcessingState of each background task
    raised,       \* the background task has had a stage body raise
    llmCall       \* the enhancement call a task has just made, if any

pipelineVars == <<results, uploads, pc, state, raised, llmCall>>

\* ----------------------------------------------------------- chunk_text
\* A text is a sequence of characters. The paragraph separator is two
\* newlines, the sentence separator a full stop and a blank.
Newline == "\n"
ParagraphSeparator == <<Newline, Newline>>
SentenceSeparator == <<".", " ">>
Alphabet == {"a", ".", " ", Newline}

\* no call
NoUtilityCall == [fn |-> "none"]

\* str.split(sep) for a separator of two characters
RECURSIVE Split(_, _)
Split(s, sep) ==
    LET at == {i \in 1..(Len(s) - 1) : s[i] = sep[1] /\ s[i + 1] = sep[2]}
    IN IF at = {} THEN <<s>>
       ELSE LET i == CHOOSE i \in at : \A j \in at : i <= j
            IN <<SubSeq(s, 1, i - 1)>> \o Split(SubSeq(s, i + 2, Len(s)), sep)

\* a test that forgets the two characters of the separator
FitsWithoutSeparator(current_chunk, unit, max_chunk_size) ==
    Len(current_chunk) + Len(unit) <= max_chunk_size

\* lines 35 and 45, negated: the unit can join the current chunk
Fits(current_chunk, unit, max_chunk_size) ==
    Len(current_chunk) + Len(unit) + 2 <= max_chunk_size

\* lines 53-54: sentence[i:i+max_chunk_size] for i in range(0, len, max)
CharacterCuts(sentence, max_chunk_size) ==
    [k \in 1..((Len(sentence) + max_chunk_size - 1) \div max_chunk_size) |->
        SubSeq(sentence, (k - 1) * max_chunk_size + 1,
               IF k * max_chunk_size < Len(sentence) THEN k * max_chunk_size
               ELSE Len(sentence))]

\* lines 29-31: chunks and current_chunk
ChunkAcc(chunks, current_chunk) == [chunks |-> chunks, current_chunk |-> current_chunk]

\* lines 36-38, 46-48 and 68-69: current_chunk is appended unless it is empty
Flushed(acc) ==
    IF Len(acc.current_chunk) > 0 THEN Append(acc.chunks, acc.current_chunk)
    ELSE acc.chunks

\* lines 57-63 and 64-67: the unit joins current_chunk
Joined(current_chunk, separator, unit) ==
    IF Len(current_chunk) > 0 THEN current_chunk \o separator \o unit ELSE unit

\* lines 44-61: one turn of the loop over the sentences
SentenceStep(acc, sentence, max_chunk_size) ==
    IF ~Fits(acc.current_chunk, sentence, max_chunk_size)
    THEN IF Len(sentence) > max_chunk_size
         THEN ChunkAcc(Flushed(acc) \o CharacterCuts(sentence, max_chunk_size), <<>>)
         ELSE ChunkAcc(Flushed(acc), sentence)
    ELSE ChunkAcc(acc.chunks, Joined(acc.current_chunk, SentenceSeparator, sentence))

RECURSIVE SentenceLoop(_, _, _)
SentenceLoop(acc, sentences, max_chunk_size) ==
    IF Len(sentences) = 0 THEN acc
    ELSE SentenceLoop(SentenceStep(acc, Head(sentences), max_chunk_size),
                      Tail(sentences), max_chunk_size)

\* lines 33-67: one turn of the loop over the paragraphs
ParagraphStep(acc, paragraph, max_chunk_size) ==
    IF ~Fits(acc.current_chunk, paragraph, max_chunk_size)
    THEN IF Len(paragraph) > max_chunk_size
         THEN SentenceLoop(ChunkAcc(Flushed(acc), <<>>),
                           Split(paragraph, SentenceSeparator), max_chunk_size)
         ELSE ChunkAcc(Flushed(acc), paragraph)
    ELSE ChunkAcc(acc.chunks, Joined(acc.current_chunk, ParagraphSeparator, paragraph))

RECURSIVE ParagraphLoop(_, _, _)
ParagraphLoop(acc, paragraphs, max_chunk_size) ==
    IF Len(paragraphs) = 0 THEN acc
    ELSE ParagraphLoop(ParagraphStep(acc, Head(paragraphs), max_chunk_size),
                       Tail(paragraphs), max_chunk_size)

\* chunk_text(text, max_chunk_size)
ChunkText(text, max_chunk_size) ==
    IF Len(text) <= max_chunk_size THEN <<text>>
    ELSE Flushed(ParagraphLoop(ChunkAcc(<<>>, <<>>), Split(text, ParagraphSeparator),
                               max_chunk_size))

\* every text of at most MaxTextLen characters
Texts == UNION {[1..n -> Alphabet] : n \in 0..MaxTextLen}

\* --------------------------------------------- _merge_extraction_results
\* A JSON value: null, a string, a number, a list of numbers or a map from
\* the keys x and y to numbers, 0 for a key the map does not have. Absent is
\* the value of a key that a dict does not have.
JsonValue(kind, text, number, items, entries) ==
    [kind |-> kind, text |-> text, number |-> number, items |-> items,
     entries |-> entries]

NoEntries == [x |-> 0, y |-> 0]
Absent == JsonValue("absent", "", 0, <<>>, NoEntries)
Null == JsonValue("null", "", 0, <<>>, NoEntries)
Str(text) == JsonValue("str", text, 0, <<>>, NoEntries)
Num(number) == JsonValue("num", "", number, <<>>, NoEntries)
List(items) == JsonValue("list", "", 0, items, NoEntries)
Map(entries) == JsonValue("map", "", 0, <<>>, entries)

\* the values of the chunks' results
JsonValues ==
    {Null, Str(""), Num(5), List(<<>>), List(<<1>>), Map(NoEntries),
     Map([x |-> 1, y |-> 0]), Map([x |-> 2, y |-> 1])}

\* the results of the chunks: dicts with the keys a and b, or fewer
Partials == [{"a", "b"} -> JsonValues \cup {Absent}]

\* dict.update
Update(entries, other) ==
    [k \in DOMAIN entries |-> IF other[k] # 0 THEN other[k] ELSE entries[k]]

\* a merge that adds up the numbers of the chunks
MergeValueSumsNumbers(merged, value) ==
    IF value.kind = "absent" THEN merged
    ELSE IF merged.kind = "absent" THEN value
    ELSE IF merged.kind = "num" /\ value.kind = "num"
         THEN Num(merged.number + value.number)
    ELSE IF merged.kind = "list" /\ value.kind = "list"
         THEN List(merged.items \o value.items)
    ELSE IF merged.kind = "map" /\ value.kind = "map"
         THEN Map(Update(merged.entries, value.entries))
    ELSE IF merged.kind = "null" \/ (merged.kind = "str" /\ merged.text = "")
         THEN value
    ELSE merged

\* lines 126-133: merged[key] after the turn for (key, value); also for a
\* key that result does not have
MergeValue(merged, value) ==
    IF value.kind = "absent" THEN merged
    ELSE IF merged.kind = "absent" THEN value
    ELSE IF merged.kind = "list" /\ value.kind = "list"
         THEN List(merged.items \o value.items)
    ELSE IF merged.kind = "map" /\ value.kind = "map"
         THEN Map(Update(merged.entries, value.entries))
    ELSE IF merged.kind = "null" \/ (merged.kind = "str" /\ merged.text = "")
         THEN value
    ELSE merged

\* lines 121-135, for a list of results that is not empty
RECURSIVE MergeLoop(_, _)
MergeLoop(merged, results_left) ==
    IF Len(results_left) = 0 THEN merged
    ELSE MergeLoop([key \in DOMAIN merged |->
                       MergeValue(merged[key], Head(results_left)[key])],
                   Tail(results_left))

MergeExtractionResults(chunk_results) ==
    MergeLoop(Head(chunk_results), Tail(chunk_results))

\* ------------------------------------------------- submit_corrections
\* CorrectionRequest; corrected_type and notes "" stand for None
CorrectionRequest(element_id, corrected_content, corrected_type, notes) ==
    [element_id |-> element_id, corrected_content |-> corrected_content,
     corrected_type |-> corrected_type, notes |-> notes]

\* request bodies: lists of corrections naming a text element every tree
\* has, a table element, and an id no tree has
CorrectionRequests ==
    LET fix == CorrectionRequest(TextId(1, 0), StrContent("fixed"), "", "typo")
        again == CorrectionRequest(TextId(1, 0), StrContent("again"), "", "")
        cell == CorrectionRequest(TableId(2, 0), StrContent("cell"), "text", "")
        unknown == CorrectionRequest(TextId(9, 9), StrContent("fixed"), "", "")
    IN {<<>>, <<fix>>, <<unknown>>, <<fix, cell>>, <<fix, again>>, <<unknown, cell>>}

\* lines 212-230: the index of the first element with the id named, or 0
FirstWithId(elements, element_id) ==
    IF \E i \in 1..Len(elements) : elements[i].id = element_id
    THEN CHOOSE i \in 1..Len(elements) :
            /\ elements[i].id = element_id
            /\ \A j \in 1..(i - 1) : elements[j].id # element_id
    ELSE 0

\* a correction that backs up the content it finds, every time
CorrectedElementBacksUpAlways(element, correction) ==
    [element EXCEPT
        !.corrections =
            [present |-> TRUE,
             original_content |-> element.content,
             corrected_at |-> TRUE,
             notes |-> correction.notes],
        !.content = correction.corrected_content,
        !.type = IF correction.corrected_type # "" THEN correction.corrected_type ELSE @,
        !.validated = TRUE]

\* lines 214-228: the element after the correction
CorrectedElement(element, correction) ==
    [element EXCEPT
        !.corrections =
            [present |-> TRUE,
             original_content |->
                 IF element.corrections.present
                 THEN element.corrections.original_content ELSE element.content,
             corrected_at |-> TRUE,
             notes |-> correction.notes],
        !.content = correction.corrected_content,
        !.type = IF correction.corrected_type # "" THEN correction.corrected_type ELSE @,
        !.validated = TRUE]

\* a correction that marks every element validated
ApplyCorrectionValidatesAll(elements, correction) ==
    LET i == FirstWithId(elements, correction.element_id)
    IN [k \in 1..Len(elements) |->
            IF k = i THEN CorrectedElement(elements[k], correction)
            ELSE [elements[k] EXCEPT !.validated = TRUE]]

\* lines 211-230, one turn of the outer loop
ApplyCorrection(elements, correction) ==
    LET i == FirstWithId(elements, correction.element_id)
    IN [k \in 1..Len(elements) |->
            IF k = i THEN CorrectedElement(elements[k], correction) ELSE elements[k]]

\* lines 210-230: the elements after the request, and corrections_applied
RECURSIVE ApplyCorrections(_, _, _)
ApplyCorrections(elements, request, corrections_applied) ==
    IF Len(request) = 0
    THEN [elements |-> elements, corrections_applied |-> corrections_applied]
    ELSE ApplyCorrections(ApplyCorrection(elements, Head(request)), Tail(request),
                          corrections_applied
                              + IF FirstWithId(elements, Head(request).element_id) # 0
                                THEN 1 ELSE 0)

\* the log line f"Applied {corrections_applied} corrections at {time}"
AppliedLine(corrections_applied) ==
    CASE corrections_applied = 0 -> "Applied 0 corrections"
      [] corrections_applied = 1 -> "Applied 1 corrections"
      [] OTHER -> "Applied corrections"

\* lines 209-236: the result submit_corrections stores
Corrected(result, request) ==
    LET applied == ApplyCorrections(result.extracted_elements, request, 0)
    IN [result EXCEPT
           !.extracted_elements = applied.elements,
           !.processing_log = Append(@, AppliedLine(applied.corrections_applied))]

\* one call of process_chunks_with_rate_limit
VARIABLES
    max_concurrent,  \* the argument max_concurrent
    total_chunks,    \* len(chunks)
    task,            \* where the task process_with_semaphore(chunk, i) stands
    semaphore,       \* the value of asyncio.Semaphore(max_concurrent)
    waiters,         \* the tasks blocked in the semaphore, first come first
    completed,       \* as_completed: finished tasks not yet awaited
    sched_results,   \* the list results
    caller           \* the caller: "collecting", "returned" or "raised"

schedVars ==
    <<max_concurrent, total_chunks, task, semaphore, waiters, completed,
      sched_results, caller>>

\* the environment and the requests served
VARIABLES
    writable,     \* the files of STORAGE_DIR can be written
    corrections,   \* PATCH /api/correct requests served so far
    validationCall \* the call of validate_extraction a task has just made: is
                   \* the service available, and what would it answer

apiVars == <<writable, corrections, validationCall>>

\* what a client or a caller saw last: a request served with its reply, or
\* one call of a function of utils/text_chunking.py or of
\* _merge_extraction_results with its arguments and, once it has returned,
\* its value
VARIABLES
    util,
    \* calls[u]: the call of process_chunks_with_rate_limit that the structure
    \* enhancement of background task u makes: its own semaphore and the
    \* number of its tasks not yet started, calling the reasoning service,
    \* sleeping, finished with a result, and failed
    calls

utilVars == <<util, calls>>

vars == <<pipelineVars, schedVars, apiVars, utilVars>>

Tasks == 1..MaxUploads

\* no call of process_chunks_with_rate_limit made by a background task
NoSchedulerCall ==
    [open |-> FALSE, semaphore |-> 0, created |-> 0, in_flight |-> 0, sleeping |-> 0,
     finished |-> 0, failed |-> 0]

\* DocumentProcessingState()
DocumentProcessingState ==
    [transaction_id |-> 0, raw_elements |-> <<>>, extracted_elements |-> <<>>,
     status |-> PENDING, error_message |-> NoMessage, processing_log |-> <<>>]

\* no enhancement call made by the step the task is in
NoCall == [made |-> FALSE, outcomes |-> <<>>]

PipelineInit ==
    /\ results = <<>>
    /\ uploads = <<>>
    /\ pc = [u \in Tasks |-> "idle"]
    /\ state = [u \in Tasks |-> DocumentProcessingState]
    /\ raised = [u \in Tasks |-> FALSE]
    /\ llmCall = [u \in Tasks |-> NoCall]
    /\ calls = [u \in Tasks |-> NoSchedulerCall]

\* A coroutine keeps the event loop until it awaits something that really
\* suspends. A background task does so in one place only, the enhancement
\* call of _structure_step: the store's and the extractor's coroutines never
\* suspend. Another task or handler runs only while every task is idle,
\* queued, suspended there, or finished.
YieldPoints == {"idle", "start", "structure_llm", "done"}

LoopFreeFor(u) == \A v \in Tasks \ {u} : pc[v] \in YieldPoints

\* str(uuid.uuid4()): every call returns an identifier no other call
\* returns. The call of the u-th upload_document is call 2u - 1, the call
\* of the process_document it queues is call 2u.
Uuid4(call) == call

\* the id upload_document returns for the u-th upload
FileIdOf(u) == Uuid4(2 * u - 1)

\* the id process_document gives the transaction of the u-th upload
TransactionIdOf(u) == Uuid4(2 * u)

\* upload_document, for a request that passes the checks of lines 35-50: the
\* file is saved under a fresh file_id, the background task is queued and
\* the file_id is returned as the transaction id
UploadDocument ==
    /\ Len(uploads) < MaxUploads
    /\ LoopFreeFor(0)
    /\ LET file_id == FileIdOf(Len(uploads) + 1)
       IN uploads' = Append(uploads, [transaction_id |-> file_id, status |-> PENDING])
    /\ pc' = [pc EXCEPT ![Len(uploads) + 1] = "start"]
    /\ UNCHANGED <<results, state, raised, llmCall, schedVars, apiVars, utilVars>>

\* get_processing_status: the HTTP status of the reply
GetProcessingStatus(res, transaction_id) ==
    IF HasResult(res, transaction_id) THEN 200 ELSE 404

\* process_document, lines 43-70: a transaction id of its own, the state
\* object and the initial result
ProcessDocumentStart(u) ==
    /\ LoopFreeFor(u)
    /\ pc[u] = "start"
    /\ LET transaction_id == TransactionIdOf(u)
       IN /\ state' = [state EXCEPT ![u].transaction_id = transaction_id]
          /\ results' = StoreResult(results,
                 ProcessingResult(transaction_id, PENDING, <<>>, <<"Started processing">>))
    /\ pc' = [pc EXCEPT ![u] = "parse"]
    /\ UNCHANGED <<uploads, raised, llmCall, schedVars, apiVars, utilVars>>

\* the first lines of a step: state.status, the log line, update_status
EnterStage(u, status, line, body) ==
    /\ state' = [state EXCEPT ![u].status = status,
                              ![u].processing_log = Append(@, line)]
    /\ results' = UpdateStatus(results, state[u].transaction_id, status, NoMessage)
    /\ pc' = [pc EXCEPT ![u] = body]
    /\ llmCall' = [llmCall EXCEPT ![u] = NoCall]
    /\ validationCall' = [validationCall EXCEPT ![u] = NoValidationCall]
    /\ UNCHANGED <<uploads, raised, schedVars, writable, corrections, utilVars>>

\* process_document going on to the next step whatever the step left
AfterStepIgnoresFailure(status, next) == next

\* process_document, lines 76-89: return when the step left the state FAILED
AfterStep(status, next) == IF status = FAILED THEN "done" ELSE next

\* the state object is local to process_document: it is gone on return
Leaving(st, next) == IF next = "done" THEN DocumentProcessingState ELSE st

\* an except clause that does not write the failure to the store
StageRaisesUnpersisted(u, next, message) ==
    /\ state' = [state EXCEPT ![u] =
           Leaving([@ EXCEPT !.error_message = message, !.status = FAILED],
                   AfterStep(FAILED, next))]
    /\ raised' = [raised EXCEPT ![u] = TRUE]
    /\ pc' = [pc EXCEPT ![u] = AfterStep(FAILED, next)]
    /\ UNCHANGED <<results, uploads, llmCall, schedVars, apiVars, utilVars>>

\* the except clause of a step
StageRaises(u, next, message) ==
    /\ state' = [state EXCEPT ![u] =
           Leaving([@ EXCEPT !.error_message = message, !.status = FAILED],
                   AfterStep(FAILED, next))]
    /\ results' = UpdateStatus(results, state[u].transaction_id, FAILED, message)
    /\ raised' = [raised EXCEPT ![u] = TRUE]
    /\ pc' = [pc EXCEPT ![u] = AfterStep(FAILED, next)]
    /\ UNCHANGED <<uploads, llmCall, schedVars, apiVars, utilVars>>

\* _parse_step, lines 104-108
ParseStepEnter(u) ==
    /\ LoopFreeFor(u)
    /\ pc[u] = "parse"
    /\ EnterStage(u, PARSING, "Started parsing", "parse_body")

\* _parse_step, lines 110-128: the extractor returns fragments or raises
ParseStepBody(u) ==
    /\ LoopFreeFor(u)
    /\ pc[u] = "parse_body"
    /\ \/ \E raw \in RawInputs :
            /\ state' = [state EXCEPT ![u].raw_elements = raw,
                                      ![u].processing_log = Append(@, "Parsed elements")]
            /\ pc' = [pc EXCEPT ![u] = AfterStep(state[u].status, "structure")]
            /\ UNCHANGED <<results, uploads, raised, llmCall, schedVars, apiVars,
                           utilVars>>
       \/ \E message \in ErrorMessages : StageRaises(u, "structure", message)

\* _parse_step for a document whose fragments are any list of FragLists
ParseFragments(u) ==
    /\ LoopFreeFor(u)
    /\ pc[u] = "parse_body"
    /\ \E raw \in FragLists :
          /\ state' = [state EXCEPT ![u].raw_elements = raw,
                                    ![u].processing_log = Append(@, "Parsed elements")]
          /\ pc' = [pc EXCEPT ![u] = AfterStep(state[u].status, "structure")]
          /\ UNCHANGED <<results, uploads, raised, llmCall, schedVars, apiVars, utilVars>>

\* _structure_step without its call of update_status
StructureStepEnterUnpersisted(u) ==
    /\ LoopFreeFor(u)
    /\ pc[u] = "structure"
    /\ state' = [state EXCEPT ![u].status = STRUCTURING,
                              ![u].processing_log = Append(@, "Started structuring")]
    /\ pc' = [pc EXCEPT ![u] = "structure_body"]
    /\ llmCall' = [llmCall EXCEPT ![u] = NoCall]
    /\ UNCHANGED <<results, uploads, raised, schedVars, apiVars, utilVars>>

\* _structure_step, lines 134-138
StructureStepEnter(u) ==
    /\ LoopFreeFor(u)
    /\ pc[u] = "structure"
    /\ EnterStage(u, STRUCTURING, "Started structuring", "structure_body")

\* _structure_step, lines 140-227 and 256-261: the local tree
StructureStepBuild(u) ==
    /\ LoopFreeFor(u)
    /\ pc[u] = "structure_body"
    /\ \/ /\ state' = [state EXCEPT
                 ![u].extracted_elements = LocalTree[state[u].raw_elements],
                 ![u].processing_log = Append(@, "Structured elements")]
          /\ pc' = [pc EXCEPT ![u] = "structure_llm"]
          /\ UNCHANGED <<results, uploads, raised, llmCall, schedVars, apiVars, utilVars>>
       \/ \E message \in ErrorMessages : StageRaises(u, "validate", message)

\* _structure_step, lines 229-254: the enhancement and its result; nothing
\* here reaches the except clause of line 256
StructureStepEnhance(u) ==
    /\ LoopFreeFor(u)
    /\ pc[u] = "structure_llm"
    /\ \E has_key \in BOOLEAN :
          LET extracted_elements == state[u].extracted_elements
              element_chunks == ElementChunks[extracted_elements]
              n == Len(element_chunks)
          IN \E outcomes \in [1..n -> StructOutcomes], order \in Orders(n) :
               LET enhanced == EnhanceDocumentStructure(extracted_elements, element_chunks,
                                                        has_key, outcomes, order)
                   applied == ApplyEnhancement(extracted_elements, enhanced)
               IN /\ has_key \/ \A i \in 1..n : outcomes[i] = "echo" /\ order[i] = i
                  /\ state' = [state EXCEPT
                        ![u].extracted_elements = applied.elements,
                        ![u].processing_log =
                            IF applied.logged
                            THEN Append(@, "Enhanced structure using LLM")
                            ELSE @]
                  /\ llmCall' = [llmCall EXCEPT ![u] =
                        [made |-> has_key, outcomes |-> IF has_key THEN outcomes ELSE <<>>]]
    /\ pc' = [pc EXCEPT ![u] = AfterStep(state[u].status, "validate")]
    /\ UNCHANGED <<results, uploads, raised, schedVars, apiVars, utilVars>>

\* _validate_step, lines 267-271
ValidateStepEnter(u) ==
    /\ LoopFreeFor(u)
    /\ pc[u] = "validate"
    /\ EnterStage(u, VALIDATING, "Started validation", "validate_body")

\* _validate_step, lines 273-357
ValidateStepBody(u) ==
    /\ LoopFreeFor(u)
    /\ pc[u] = "validate_body"
    /\ \/ \E has_key \in BOOLEAN :
          \E reply \in IF has_key
                       THEN ValidationReplies(BasicValidation(state[u].extracted_elements,
                                                              ConfidenceThreshold))
                       ELSE {<<>>} :
          LET basic == BasicValidation(state[u].extracted_elements, ConfidenceThreshold)
              applied == ApplyValidation(basic, ValidateExtraction(basic, has_key, reply),
                                         ConfidenceThreshold)
          IN /\ validationCall' = [validationCall EXCEPT ![u] =
                                      [available |-> has_key, reply |-> reply]]
             /\ state' = [state EXCEPT
                   ![u].extracted_elements = applied.elements,
                   ![u].processing_log =
                       IF applied.logged
                       THEN @ \o <<"Enhanced validation using LLM", "Validated elements">>
                       ELSE Append(@, "Validated elements")]
             /\ pc' = [pc EXCEPT ![u] = AfterStep(state[u].status, "highlight")]
             /\ UNCHANGED <<results, uploads, raised, llmCall, schedVars, writable,
                            corrections, utilVars>>
       \/ \E message \in ErrorMessages : StageRaises(u, "highlight", message)

\* _highlight_step, lines 363-367
HighlightStepEnter(u) ==
    /\ LoopFreeFor(u)
    /\ pc[u] = "highlight"
    /\ EnterStage(u, HIGHLIGHTING, "Started highlighting", "highlight_body")

\* _highlight_step, lines 369-389
HighlightStepBody(u) ==
    /\ LoopFreeFor(u)
    /\ pc[u] = "highlight_body"
    /\ \/ /\ state' = [state EXCEPT
                 ![u].extracted_elements = Highlighted(@),
                 ![u].processing_log = Append(@, "Created visual highlights")]
          /\ pc' = [pc EXCEPT ![u] = AfterStep(state[u].status, "store")]
          /\ UNCHANGED <<results, uploads, raised, llmCall, schedVars, apiVars, utilVars>>
       \/ \E message \in ErrorMessages : StageRaises(u, "store", message)

\* _store_step, lines 406-410
StoreStepEnter(u) ==
    /\ LoopFreeFor(u)
    /\ pc[u] = "store"
    /\ EnterStage(u, STORING, "Started storing", "store_body")

\* the number of elements of a type
CountOfType(elements, type) ==
    Cardinality({i \in 1..Len(elements) : elements[i].type = type})

\* a summary that counts every element as validated
SummaryValidatedIsTotal(elements) ==
    [present |-> TRUE,
     total_elements |-> Len(elements),
     text_elements |-> CountOfType(elements, "text"),
     table_elements |-> CountOfType(elements, "table"),
     validated_elements |-> Len(elements)]

\* _store_step, lines 412-421: structured_data["summary"]
Summary(elements) ==
    [present |-> TRUE,
     total_elements |-> Len(elements),
     text_elements |-> CountOfType(elements, "text"),
     table_elements |-> CountOfType(elements, "table"),
     validated_elements |->
         Cardinality({i \in 1..Len(elements) : elements[i].validated})]

\* a final result built without processing_log=state.processing_log
FinalResultWithoutLog(st) ==
    [ProcessingResult(st.transaction_id, COMPLETED, st.extracted_elements, <<>>)
        EXCEPT !.structured_data = Summary(st.extracted_elements)]

\* _store_step, lines 412-434: the final result
FinalResult(st) ==
    [ProcessingResult(st.transaction_id, COMPLETED, st.extracted_elements,
                      st.processing_log)
        EXCEPT !.structured_data = Summary(st.extracted_elements)]

\* _store_step, lines 412-450: building the summary or the final result may
\* raise, store_result never does; then process_document returns
StoreStepBody(u) ==
    /\ LoopFreeFor(u)
    /\ pc[u] = "store_body"
    /\ \/ /\ results' = StoreResult(results, FinalResult(state[u]))
          /\ state' = [state EXCEPT ![u] =
                 Leaving([@ EXCEPT !.status = COMPLETED,
                                   !.processing_log = Append(@, "Completed processing")],
                         "done")]
          /\ pc' = [pc EXCEPT ![u] = "done"]
          /\ UNCHANGED <<uploads, raised, llmCall, schedVars, apiVars, utilVars>>
       \/ \E message \in ErrorMessages : StageRaises(u, "done", message)

\* the steps of one background task
ProcessDocument(u) ==
    \/ ProcessDocumentStart(u)
    \/ ParseStepEnter(u)
    \/ ParseStepBody(u)
    \/ StructureStepEnter(u)
    \/ StructureStepBuild(u)
    \/ StructureStepEnhance(u)
    \/ ValidateStepEnter(u)
    \/ ValidateStepBody(u)
    \/ HighlightStepEnter(u)
    \/ HighlightStepBody(u)
    \/ StoreStepEnter(u)
    \/ StoreStepBody(u)

\* ------------------------------------- process_chunks_with_rate_limit
Chunks == 1..total_chunks

\* no call of process_chunks_with_rate_limit is modelled
SchedIdle ==
    /\ max_concurrent = 0
    /\ total_chunks = 0
    /\ task = <<>>
    /\ semaphore = 0
    /\ waiters = <<>>
    /\ completed = <<>>
    /\ sched_results = <<>>
    /\ caller = "returned"

\* lines 140-152: the semaphore and one task per chunk; no upload is made
SchedInit ==
    /\ PipelineInit
    /\ writable = TRUE
    /\ corrections = 0
    /\ validationCall = [u \in Tasks |-> NoValidationCall]
    /\ util = NoUtilityCall
    /\ max_concurrent \in 1..MaxConcurrent
    /\ total_chunks \in 1..MaxChunks
    /\ task = [i \in 1..total_chunks |-> "created"]
    /\ semaphore = max_concurrent
    /\ waiters = <<>>
    /\ completed = <<>>
    /\ sched_results = <<>>
    /\ caller = "collecting"

\* a semaphore that never blocks
CanAcquireAlways(value, waiting) == TRUE

\* Semaphore.acquire does not block
CanAcquire(value, waiting) == value > 0 /\ Len(waiting) = 0

\* invocations of process_func that have started and not yet returned
InFlight == {i \in Chunks : task[i] = "running"}

\* line 145: the task enters `async with semaphore`; tasks start in the
\* order of a set of coroutine objects, which is any order
TaskStart(i) ==
    /\ task[i] = "created"
    /\ IF CanAcquire(semaphore, waiters)
       THEN /\ semaphore' = semaphore - 1
            /\ task' = [task EXCEPT ![i] = "running"]
            /\ UNCHANGED waiters
       ELSE /\ waiters' = Append(waiters, i)
            /\ task' = [task EXCEPT ![i] = "waiting"]
            /\ UNCHANGED semaphore
    /\ UNCHANGED <<max_concurrent, total_chunks, completed, sched_results, caller,
                   pipelineVars, apiVars, utilVars>>

\* line 147 returns; the task sleeps inside the semaphore (line 148)
WorkerReturns(i) ==
    /\ task[i] = "running"
    /\ task' = [task EXCEPT ![i] = "sleeping"]
    /\ UNCHANGED <<max_concurrent, total_chunks, semaphore, waiters, completed,
                   sched_results, caller, pipelineVars, apiVars, utilVars>>

\* leaving `async with semaphore`: the slot goes to the first waiter, which
\* then calls process_func, or back to the semaphore
Release(i, outcome) ==
    /\ IF Len(waiters) > 0
       THEN /\ task' = [task EXCEPT ![i] = outcome, ![Head(waiters)] = "running"]
            /\ waiters' = Tail(waiters)
            /\ UNCHANGED semaphore
       ELSE /\ task' = [task EXCEPT ![i] = outcome]
            /\ semaphore' = semaphore + 1
            /\ UNCHANGED waiters
    /\ completed' = Append(completed, i)

\* line 147 raises: the exception leaves the with block and ends the task
WorkerRaises(i) ==
    /\ task[i] = "running"
    /\ Release(i, "raised")
    /\ UNCHANGED <<max_concurrent, total_chunks, sched_results, caller, pipelineVars,
                   apiVars, utilVars>>

\* line 148-149: the delay is over, the task returns its result
SleepEnds(i) ==
    /\ task[i] = "sleeping"
    /\ Release(i, "returned")
    /\ UNCHANGED <<max_concurrent, total_chunks, sched_results, caller, pipelineVars,
                   apiVars, utilVars>>

\* awaiting the tasks in the order they were submitted
AsCompletedInSubmissionOrder(queue) ==
    CHOOSE k \in 1..Len(queue) : \A m \in 1..Len(queue) : queue[k] <= queue[m]

\* asyncio.as_completed (line 155): the position, among the finished tasks
\* not yet awaited, of the one handed out next: the one that finished first
AsCompleted(queue) == 1

\* the queue without its k-th entry
Without(queue, k) == SubSeq(queue, 1, k - 1) \o SubSeq(queue, k + 1, Len(queue))

\* lines 155-159: await the next finished task; its exception, if any,
\* leaves process_chunks_with_rate_limit and the tasks run on unawaited
Collect ==
    /\ caller = "collecting"
    /\ Len(completed) > 0
    /\ LET k == AsCompleted(completed)
       IN  /\ completed' = Without(completed, k)
           /\ IF task[completed[k]] = "raised"
              THEN /\ caller' = "raised"
                   /\ UNCHANGED sched_results
              ELSE /\ sched_results' = Append(sched_results, completed[k])
                   /\ caller' = IF Len(sched_results) + 1 = total_chunks
                                THEN "returned" ELSE "collecting"
    /\ UNCHANGED <<max_concurrent, total_chunks, task, semaphore, waiters,
                   pipelineVars, apiVars, utilVars>>

SchedNext ==
    \/ \E i \in Chunks : TaskStart(i)
    \/ \E i \in Chunks : WorkerReturns(i)
    \/ \E i \in Chunks : WorkerRaises(i)
    \/ \E i \in Chunks : SleepEnds(i)
    \/ Collect

\* submit_corrections for a transaction the store holds (lines 204-239): the
\* corrections are applied, a log line is appended and the result is stored,
\* whatever the status of the transaction
SubmitCorrections(transaction_id, request) ==
    /\ corrections < MaxCorrectionRequests
    /\ LoopFreeFor(0)
    /\ HasResult(results, transaction_id)
    /\ results' = StoreResult(results, Corrected(GetResult(results, transaction_id), request))
    /\ corrections' = corrections + 1
    /\ UNCHANGED <<uploads, pc, state, raised, llmCall, schedVars, writable,
                   validationCall, utilVars>>

\* ----------------------------------------------------- the other routes
\* HTTPException(status_code, detail), or a reply with status 200
Reply(status_code, detail) == [status_code |-> status_code, detail |-> detail]
Ok == Reply(200, "")
TransactionNotFound == Reply(404, "Transaction not found")

\* the ids a client may send: the ids upload_document returned and the ids
\* process_document gave the transactions
RequestIds == {FileIdOf(u) : u \in Tasks} \cup {TransactionIdOf(u) : u \in Tasks}

\* the chunk ids a client may send: an element every tree has, and none
ChunkIds == {TextId(1, 0), TextId(9, 9)}

\* a request served: the route, the transaction id and the reply
Served(fn, transaction_id, reply) ==
    [fn |-> fn, transaction_id |-> transaction_id, reply |-> reply]

\* a status route that answers 200 for every id
StatusReplyAlwaysOk(res, transaction_id) == Ok

\* get_processing_status and get_processing_result, lines 97-100 and
\* 135-138
StatusReply(res, transaction_id) ==
    IF GetProcessingStatus(res, transaction_id) = 404 THEN TransactionNotFound ELSE Ok

\* get_visual_grounding, lines 152-175; has_file: the uploaded file is found
\* under the transaction id
GroundingReply(res, transaction_id, chunk_id, has_file) ==
    IF ~HasResult(res, transaction_id) THEN TransactionNotFound
    ELSE IF FirstWithId(res[transaction_id].extracted_elements, chunk_id) = 0
         THEN Reply(404, "Element not found")
    ELSE IF ~has_file THEN Reply(404, "Original file not found")
    ELSE Ok

\* InMemoryStorage.delete_result: the store afterwards; it returns True
DeleteResult(res, transaction_id) ==
    [id \in DOMAIN res \ {transaction_id} |-> res[id]]

\* delete_result of the router, lines 288-304: storage.delete_result
\* returned True
DeleteReply(res, transaction_id) == Reply(200, "Result deleted successfully")

\* GET /status/{transaction_id}
GetStatusRequest(transaction_id) ==
    /\ LoopFreeFor(0)
    /\ util' = Served("get_processing_status", transaction_id,
                      StatusReply(results, transaction_id))
    /\ UNCHANGED <<pipelineVars, schedVars, apiVars, calls>>

\* GET /result/{transaction_id}
GetResultRequest(transaction_id) ==
    /\ LoopFreeFor(0)
    /\ util' = Served("get_processing_result", transaction_id,
                      StatusReply(results, transaction_id))
    /\ UNCHANGED <<pipelineVars, schedVars, apiVars, calls>>

\* GET /grounding/{chunk_id}?transaction_id=
GetGroundingRequest(transaction_id) ==
    /\ LoopFreeFor(0)
    /\ \E chunk_id \in ChunkIds, has_file \in BOOLEAN :
          util' = Served("get_visual_grounding", transaction_id,
                         GroundingReply(results, transaction_id, chunk_id, has_file))
    /\ UNCHANGED <<pipelineVars, schedVars, apiVars, calls>>

\* PATCH /correct/{transaction_id}: submit_corrections, lines 204-252
CorrectRequest(transaction_id) ==
    /\ corrections < MaxCorrectionRequests
    /\ LoopFreeFor(0)
    /\ \E request \in CorrectionRequests :
          IF HasResult(results, transaction_id)
          THEN /\ results' = StoreResult(results,
                                Corrected(GetResult(results, transaction_id), request))
               /\ util' = Served("submit_corrections", transaction_id, Ok)
          ELSE /\ results' = results
               /\ util' = Served("submit_corrections", transaction_id,
                                 TransactionNotFound)
    /\ corrections' = corrections + 1
    /\ UNCHANGED <<uploads, pc, state, raised, llmCall, schedVars, writable,
                   validationCall, calls>>

\* DELETE /result/{transaction_id}
DeleteRequest(transaction_id) ==
    /\ LoopFreeFor(0)
    /\ results' = DeleteResult(results, transaction_id)
    /\ util' = Served("delete_result", transaction_id, DeleteReply(results, transaction_id))
    /\ UNCHANGED <<uploads, pc, state, raised, llmCall, schedVars, apiVars, calls>>

\* ------------------------------------------------------- specifications
Init ==
    /\ PipelineInit
    /\ SchedIdle
    /\ writable = TRUE
    /\ corrections = 0
    /\ validationCall = [u \in Tasks |-> NoValidationCall]
    /\ util = NoUtilityCall

\* the service started with a storage directory that cannot be written
FaultInit ==
    /\ PipelineInit
    /\ SchedIdle
    /\ writable = FALSE
    /\ corrections = 0
    /\ validationCall = [u \in Tasks |-> NoValidationCall]
    /\ util = NoUtilityCall

Next ==
    \/ UploadDocument
    \/ \E u \in Tasks : ProcessDocumentStart(u)
    \/ \E u \in Tasks : ParseStepEnter(u)
    \/ \E u \in Tasks : ParseStepBody(u)
    \/ \E u \in Tasks : StructureStepEnter(u)
    \/ \E u \in Tasks : StructureStepBuild(u)
    \/ \E u \in Tasks : StructureStepEnhance(u)
    \/ \E u \in Tasks : ValidateStepEnter(u)
    \/ \E u \in Tasks : ValidateStepBody(u)
    \/ \E u \in Tasks : HighlightStepEnter(u)
    \/ \E u \in Tasks : HighlightStepBody(u)
    \/ \E u \in Tasks : StoreStepEnter(u)
    \/ \E u \in Tasks : StoreStepBody(u)

\* the service: uploads and their background tasks
Spec == Init /\ [][Next]_vars

\* the event loop runs every background task it holds until the task ends,
\* as long as the calls the task awaits come back
FairSpec == Spec /\ \A u \in Tasks : WF_vars(ProcessDocument(u))

\* the service with a storage directory that cannot be written
FaultSpec == FaultInit /\ [][Next]_vars

ApiNext ==
    \/ UploadDocument
    \/ \E u \in Tasks : ProcessDocumentStart(u)
    \/ \E u \in Tasks : ParseStepEnter(u)
    \/ \E u \in Tasks : ParseStepBody(u)
    \/ \E u \in Tasks : StructureStepEnter(u)
    \/ \E u \in Tasks : StructureStepBuild(u)
    \/ \E u \in Tasks : StructureStepEnhance(u)
    \/ \E u \in Tasks : ValidateStepEnter(u)
    \/ \E u \in Tasks : ValidateStepBody(u)
    \/ \E u \in Tasks : HighlightStepEnter(u)
    \/ \E u \in Tasks : HighlightStepBody(u)
    \/ \E u \in Tasks : StoreStepEnter(u)
    \/ \E u \in Tasks : StoreStepBody(u)
    \/ \E u \in Tasks, request \in CorrectionRequests :
           SubmitCorrections(TransactionIdOf(u), request)

\* the service with clients that also submit corrections
ApiSpec == Init /\ [][ApiNext]_vars

\* the first upload of a service
UploadFirst == uploads = <<>> /\ UploadDocument

StageNext ==
    \/ UploadFirst
    \/ \E u \in Tasks : ProcessDocumentStart(u)
    \/ \E u \in Tasks : ParseStepEnter(u)
    \/ \E u \in Tasks : ParseFragments(u)
    \/ \E u \in Tasks : StructureStepEnter(u)
    \/ \E u \in Tasks : StructureStepBuild(u)
    \/ \E u \in Tasks : StructureStepEnhance(u)
    \/ \E u \in Tasks : ValidateStepEnter(u)
    \/ \E u \in Tasks : ValidateStepBody(u)
    \/ \E u \in Tasks : HighlightStepEnter(u)
    \/ \E u \in Tasks : HighlightStepBody(u)
    \/ \E u \in Tasks : StoreStepEnter(u)
    \/ \E u \in Tasks : StoreStepBody(u)

\* one document of any fragments taken through the stages
StageSpec == Init /\ [][StageNext]_vars

\* a call of chunk_text about to be made
TextInit ==
    /\ PipelineInit
    /\ SchedIdle
    /\ writable = TRUE
    /\ corrections = 0
    /\ validationCall = [u \in Tasks |-> NoValidationCall]
    /\ \E text \in Texts, max_chunk_size \in 1..MaxChunkSize :
          util = [fn |-> "chunk_text", text |-> text, max_chunk_size |-> max_chunk_size,
                  returned |-> FALSE, chunks |-> <<>>]

\* chunk_text returns
ChunkTextReturns ==
    /\ util.fn = "chunk_text"
    /\ ~util.returned
    /\ util' = [util EXCEPT !.returned = TRUE,
                            !.chunks = ChunkText(util.text, util.max_chunk_size)]
    /\ UNCHANGED <<pipelineVars, schedVars, apiVars, calls>>

TextNext == ChunkTextReturns

\* chunk_text applied to every text and size within the bounds
TextSpec == TextInit /\ [][TextNext]_vars

\* the dicts chunk_elements is given: what it reads of a dict is its page
\* number, 0 when the dict has none; id tells the dicts apart
ElementDicts ==
    UNION {{[k \in 1..n |-> [id |-> k, page_number |-> pages[k]]] :
                pages \in [1..n -> 0..2]} : n \in 0..MaxElements}

\* a call of chunk_elements about to be made
ElementsInit ==
    /\ PipelineInit
    /\ SchedIdle
    /\ writable = TRUE
    /\ corrections = 0
    /\ validationCall = [u \in Tasks |-> NoValidationCall]
    /\ \E elements \in ElementDicts, max_elements_per_chunk \in 1..MaxPerChunk :
          util = [fn |-> "chunk_elements", elements |-> elements,
                  max_elements_per_chunk |-> max_elements_per_chunk,
                  returned |-> FALSE, chunks |-> <<>>]

\* chunk_elements returns
ChunkElementsReturns ==
    /\ util.fn = "chunk_elements"
    /\ ~util.returned
    /\ util' = [util EXCEPT
           !.returned = TRUE,
           !.chunks = ChunkElements(util.elements, util.max_elements_per_chunk)]
    /\ UNCHANGED <<pipelineVars, schedVars, apiVars, calls>>

ElementsNext == ChunkElementsReturns

\* chunk_elements applied to every list and size within the bounds
ElementsSpec == ElementsInit /\ [][ElementsNext]_vars

\* a call of _merge_extraction_results about to be made
MergeInit ==
    /\ PipelineInit
    /\ SchedIdle
    /\ writable = TRUE
    /\ corrections = 0
    /\ validationCall = [u \in Tasks |-> NoValidationCall]
    /\ \E n \in 1..MaxPartials : \E chunk_results \in [1..n -> Partials] :
          util = [fn |-> "merge", results |-> chunk_results, returned |-> FALSE,
                  merged |-> [key \in {"a", "b"} |-> Absent]]

\* _merge_extraction_results returns
MergeReturns ==
    /\ util.fn = "merge"
    /\ ~util.returned
    /\ util' = [util EXCEPT !.returned = TRUE,
                            !.merged = MergeExtractionResults(util.results)]
    /\ UNCHANGED <<pipelineVars, schedVars, apiVars, calls>>

MergeNext == MergeReturns

\* _merge_extraction_results applied to every list of results within the
\* bounds
MergeSpec == MergeInit /\ [][MergeNext]_vars

RequestNext ==
    \/ UploadFirst
    \/ \E u \in Tasks : ProcessDocumentStart(u)
    \/ \E u \in Tasks : ParseStepEnter(u)
    \/ \E u \in Tasks : ParseStepBody(u)
    \/ \E u \in Tasks : StructureStepEnter(u)
    \/ \E u \in Tasks : StructureStepBuild(u)
    \/ \E u \in Tasks : StructureStepEnhance(u)
    \/ \E u \in Tasks : ValidateStepEnter(u)
    \/ \E u \in Tasks : ValidateStepBody(u)
    \/ \E u \in Tasks : HighlightStepEnter(u)
    \/ \E u \in Tasks : HighlightStepBody(u)
    \/ \E u \in Tasks : StoreStepEnter(u)
    \/ \E u \in Tasks : StoreStepBody(u)
    \/ \E transaction_id \in RequestIds : GetStatusRequest(transaction_id)
    \/ \E transaction_id \in RequestIds : GetResultRequest(transaction_id)
    \/ \E transaction_id \in RequestIds : GetGroundingRequest(transaction_id)
    \/ \E transaction_id \in RequestIds : CorrectRequest(transaction_id)
    \/ \E transaction_id \in RequestIds : DeleteRequest(transaction_id)

\* one upload, its background task, and clients that query, correct and
\* delete
RequestSpec == Init /\ [][RequestNext]_vars

\* ------------------- the scheduler calls of several background tasks
\* enhance_document_structure, line 329: max_concurrent=1
StructureMaxConcurrent == 1

CallUnchanged == UNCHANGED <<pipelineVars, schedVars, apiVars, util>>

\* enhance_document_structure reaches process_chunks_with_rate_limit (lines
\* 325-331), which makes a semaphore of its own (text_chunking.py, line 141)
\* and one task per chunk
EnhanceCallBegins(u) ==
    /\ LoopFreeFor(u)
    /\ pc[u] = "structure_llm"
    /\ calls[u] = NoSchedulerCall
    /\ calls' = [calls EXCEPT ![u] =
           [open |-> TRUE, semaphore |-> StructureMaxConcurrent,
            created |-> Len(ElementChunks[state[u].extracted_elements]),
            in_flight |-> 0, sleeping |-> 0, finished |-> 0, failed |-> 0]]
    /\ CallUnchanged

\* a task of the call enters its semaphore and calls the reasoning service
\* (text_chunking.py, lines 145-147)
WorkerCallsService(u) ==
    /\ LoopFreeFor(u)
    /\ calls[u].open
    /\ calls[u].created > 0
    /\ calls[u].semaphore > 0
    /\ calls' = [calls EXCEPT ![u].created = @ - 1, ![u].semaphore = @ - 1,
                              ![u].in_flight = @ + 1]
    /\ CallUnchanged

\* the reasoning service answers, and the task sleeps inside the semaphore
\* (line 148), or the call raises, and the task leaves the semaphore
ServiceReplies(u) ==
    /\ LoopFreeFor(u)
    /\ calls[u].in_flight > 0
    /\ \/ calls' = [calls EXCEPT ![u].in_flight = @ - 1, ![u].sleeping = @ + 1]
       \/ calls' = [calls EXCEPT ![u].in_flight = @ - 1, ![u].semaphore = @ + 1,
                                 ![u].failed = @ + 1]
    /\ CallUnchanged

\* the delay is over: the task leaves the semaphore (lines 148-149)
DelayEnds(u) ==
    /\ LoopFreeFor(u)
    /\ calls[u].sleeping > 0
    /\ calls' = [calls EXCEPT ![u].sleeping = @ - 1, ![u].semaphore = @ + 1,
                              ![u].finished = @ + 1]
    /\ CallUnchanged

\* every task of the call has ended: enhance_document_structure goes on and
\* _structure_step with it
EnhanceCallEnds(u) ==
    /\ calls[u].open
    /\ calls[u].created = 0
    /\ calls[u].in_flight = 0
    /\ calls[u].sleeping = 0
    /\ StructureStepEnhance(u)

ParallelNext ==
    \/ UploadDocument
    \/ \E u \in Tasks : ProcessDocumentStart(u)
    \/ \E u \in Tasks : ParseStepEnter(u)
    \/ \E u \in Tasks : ParseStepBody(u)
    \/ \E u \in Tasks : StructureStepEnter(u)
    \/ \E u \in Tasks : StructureStepBuild(u)
    \/ \E u \in Tasks : EnhanceCallBegins(u)
    \/ \E u \in Tasks : WorkerCallsService(u)
    \/ \E u \in Tasks : ServiceReplies(u)
    \/ \E u \in Tasks : DelayEnds(u)
    \/ \E u \in Tasks : EnhanceCallEnds(u)

\* the uploads and their background tasks up to the end of the structure
\* enhancement, the calls of the reasoning service one by one
ParallelSpec == Init /\ [][ParallelNext]_vars

\* one call of process_chunks_with_rate_limit
SchedSpec == SchedInit /\ [][SchedNext]_vars

\* ----------------------------------------------------------- properties
StatusOrder ==
    <<PENDING, PARSING, STRUCTURING, VALIDATING, HIGHLIGHTING, STORING, COMPLETED>>

Rank(status) == CHOOSE i \in 1..Len(StatusOrder) : StatusOrder[i] = status

\* a persisted status may be followed by itself, by the next status in
\* order, or (when it is not terminal) by FAILED
OneStep(before, after) ==
    \/ after = before
    \/ before \notin {COMPLETED, FAILED} /\ after = FAILED
    \/ before # FAILED /\ after # FAILED /\ Rank(after) = Rank(before) + 1

Terminal(res, id) == HasResult(res, id) /\ res[id].status \in {COMPLETED, FAILED}

\* C1: the persisted status of every transaction changes only by one step
\* along PENDING .. COMPLETED or from a non-terminal status to FAILED, and a
\* result first appears as PENDING: no stage is skipped, none is gone back to.
C1_StatusMovesOneStep ==
    [][\A id \in DOMAIN results' :
          IF id \in DOMAIN results
          THEN OneStep(results[id].status, results'[id].status)
          ELSE results'[id].status = PENDING]_vars

C1_Witness ==
    \E u, v \in Tasks :
        /\ Terminal(results, TransactionIdOf(u)) /\ Terminal(results, TransactionIdOf(v))
        /\ results[TransactionIdOf(u)].status = COMPLETED
        /\ results[TransactionIdOf(v)].status = FAILED

\* C2: once a stage of a transaction has raised, the persisted snapshot of
\* the transaction has status FAILED and a non-empty error_message.
C2_FailedSnapshotHasErrorMessage ==
    \A u \in Tasks :
        raised[u] =>
            /\ HasResult(results, TransactionIdOf(u))
            /\ results[TransactionIdOf(u)].status = FAILED
            /\ results[TransactionIdOf(u)].error_message \notin {NoMessage, ""}

\* the log lines of the stages, by the rank of the stage's status
StageLines ==
    [line \in {"Started parsing", "Parsed elements", "Started structuring",
               "Structured elements", "Enhanced structure using LLM",
               "Started validation", "Enhanced validation using LLM",
               "Validated elements", "Started highlighting",
               "Created visual highlights", "Started storing",
               "Completed processing"} |->
        CASE line \in {"Started parsing", "Parsed elements"} -> Rank(PARSING)
          [] line \in {"Started structuring", "Structured elements",
                       "Enhanced structure using LLM"} -> Rank(STRUCTURING)
          [] line \in {"Started validation", "Enhanced validation using LLM",
                       "Validated elements"} -> Rank(VALIDATING)
          [] line \in {"Started highlighting", "Created visual highlights"} ->
                 Rank(HIGHLIGHTING)
          [] OTHER -> Rank(STORING)]

\* no line of a stage after the given one is in the log
NoLaterStageLine(log, stage) ==
    \A k \in 1..Len(log) :
        log[k] \in DOMAIN StageLines => StageLines[log[k]] <= Rank(stage)

\* C3: when a stage of a transaction raises, the transaction is left FAILED
\* with no log entry of a later stage, its task ends, and from then on no
\* step changes the transaction's persisted result: no later stage runs or
\* writes a status or a log entry.
C3_NothingRunsAfterFailure ==
    [][\A u \in Tasks :
          LET id == TransactionIdOf(u)
          IN /\ (raised'[u] /\ ~raised[u]) =>
                    /\ pc'[u] = "done"
                    /\ HasResult(results', id)
                    /\ results'[id].status = FAILED
                    /\ NoLaterStageLine(results'[id].processing_log, results[id].status)
             /\ raised[u] =>
                    /\ raised'[u]
                    /\ pc'[u] = "done"
                    /\ results'[id] = results[id]]_vars

C3_Witness ==
    \E u, v \in Tasks :
        /\ raised[u] /\ pc[u] = "done"
        /\ results[TransactionIdOf(u)].status = FAILED
        /\ ~raised[v] /\ pc[v] = "highlight_body"

\* C4: every transaction whose background task is queued eventually has a
\* persisted snapshot with status COMPLETED or FAILED.
C4_EveryTransactionEnds ==
    \A u \in Tasks : (pc[u] # "idle") ~> Terminal(results, TransactionIdOf(u))

C4_Witness ==
    \A u \in Tasks : pc[u] = "done" /\ Terminal(results, TransactionIdOf(u))

\* C5: at most max_concurrent invocations of the worker have started and
\* not yet returned.
C5_AtMostMaxConcurrentInFlight == Cardinality(InFlight) <= max_concurrent

C5_Witness ==
    /\ max_concurrent = 2
    /\ Cardinality(InFlight) = 2
    /\ Len(waiters) > 0

\* C6: when the worker has failed on a chunk and every task has ended and
\* been awaited, the call has returned one result per chunk.
C6_WorkerFailureKeepsTheBatch ==
    (/\ \E i \in Chunks : task[i] = "raised"
     /\ \A i \in Chunks : task[i] \in {"raised", "returned"}
     /\ (Len(completed) = 0 \/ caller # "collecting"))
        => caller = "returned" /\ Len(sched_results) = total_chunks

\* the same elements, in whatever order
SameElements(a, b) ==
    /\ Len(a) = Len(b)
    /\ {a[i] : i \in 1..Len(a)} = {b[i] : i \in 1..Len(b)}

\* the service failed or gave a degenerate result for some chunk
Degraded(call) ==
    /\ call.made
    /\ \E i \in 1..Len(call.outcomes) :
          call.outcomes[i] \in {"raise", "unparseable", "empty", "nonlist", "invalid"}

\* C7: when the reasoning service fails on a chunk, or returns an empty, a
\* non-list or a schema-invalid result, the elements held after structuring
\* are those of the locally built tree.
C7_DegradedEnhancementKeepsLocalTree ==
    \A u \in Tasks :
        (pc[u] = "validate" /\ Degraded(llmCall[u])) =>
            SameElements(state[u].extracted_elements, LocalTree[state[u].raw_elements])

\* the chunks on which the service raised or gave an unparseable reply
FailedChunks(call) ==
    {i \in 1..Len(call.outcomes) : call.outcomes[i] \in {"raise", "unparseable"}}

Contains(elements, e) == \E k \in 1..Len(elements) : elements[k] = e

\* C8: a failure of the reasoning service (an exception or an unparseable
\* reply) during structuring does not fail the transaction: the task goes on
\* to validation, the persisted status is not FAILED, the locally built
\* elements of every chunk the service failed on are all kept unchanged, and
\* when it failed on every chunk the elements are those of the local tree.
\* (During validation the service is never called: ValidateExtraction.)
C8_ServiceFailureDoesNotFailTransaction ==
    \A u \in Tasks :
        (llmCall[u].made /\ FailedChunks(llmCall[u]) # {}) =>
            LET local == LocalTree[state[u].raw_elements]
                chunks == ElementChunks[local]
            IN /\ pc[u] = "validate"
               /\ ~raised[u]
               /\ results[TransactionIdOf(u)].status = STRUCTURING
               /\ \A i \in FailedChunks(llmCall[u]) :
                     \A k \in 1..Len(chunks[i]) :
                        Contains(state[u].extracted_elements, chunks[i][k])
               /\ FailedChunks(llmCall[u]) = 1..Len(chunks) =>
                     SameElements(state[u].extracted_elements, local)

C8_Witness ==
    \E u \in Tasks :
        /\ llmCall[u].made
        /\ Len(llmCall[u].outcomes) = 2
        /\ llmCall[u].outcomes[1] = "unparseable"
        /\ llmCall[u].outcomes[2] = "retyped"
        /\ pc[u] = "validate"

\* C9: once the background task of an accepted upload has stored its
\* initial result, a status query for the transaction id the upload
\* returned finds the transaction.
C9_ReturnedIdFindsTheTransaction ==
    \A u \in 1..Len(uploads) :
        pc[u] # "start" => GetProcessingStatus(results, uploads[u].transaction_id) = 200

StageStartLines ==
    <<"Started parsing", "Started structuring", "Started validation",
      "Started highlighting", "Started storing">>

IsStageStart(line) == \E k \in 1..Len(StageStartLines) : StageStartLines[k] = line

\* C10: the persisted log of every COMPLETED transaction holds the entries
\* of the stages PARSING, STRUCTURING, VALIDATING, HIGHLIGHTING and STORING,
\* one each, in that order.
C10_CompletedLogHasStagesInOrder ==
    \A id \in DOMAIN results :
        results[id].status = COMPLETED =>
            SelectSeq(results[id].processing_log, IsStageStart) = StageStartLines

C10_Witness ==
    \E id \in DOMAIN results :
        /\ results[id].status = COMPLETED
        /\ Len(results[id].processing_log) > Len(StageStartLines)

IsPrefix(a, b) == Len(a) <= Len(b) /\ SubSeq(b, 1, Len(a)) = a

\* C11: the persisted log of a transaction only grows: the log a step
\* finds stored for an id is a prefix of the log the step leaves for it.
C11_PersistedLogIsAppendOnly ==
    [][\A id \in DOMAIN results \cap DOMAIN results' :
          IsPrefix(results[id].processing_log, results'[id].processing_log)]_vars

\* the transaction ids of the model, and one more that is never written
Ids == {TransactionIdOf(u) : u \in Tasks} \cup {FileIdOf(u) : u \in Tasks} \cup {Uuid4(0)}

\* snapshots to put: the stored ones, under any id and with any status
Snapshots ==
    {[results[a] EXCEPT !.transaction_id = b, !.status = s] :
        a \in DOMAIN results, b \in Ids, s \in {PENDING, COMPLETED}}

\* C15: the store holds one result per id and put replaces the whole
\* snapshot: get after put returns the snapshot put and every other id is
\* as before; get after setStatus returns the old snapshot with the new
\* status and the log grown by the message, if any; setStatus of an id never
\* written writes nothing, and get of such an id is absent.
C15_PutIsWholeSnapshotUpsert ==
    /\ \A r \in Snapshots :
          LET after == StoreResult(results, r)
          IN /\ GetResult(after, r.transaction_id) = r
             /\ \A id \in Ids \ {r.transaction_id} :
                   GetResult(after, id) = GetResult(results, id)
    /\ \A id \in Ids, status \in ProcessingStatus, message \in ErrorMessages \cup {NoMessage} :
          LET after == UpdateStatus(results, id, status, message)
              old == GetResult(results, id)
          IN IF HasResult(results, id)
             THEN /\ GetResult(after, id) =
                        [old EXCEPT !.status = status,
                                    !.processing_log =
                                        IF message = "stage error" THEN Append(@, message) ELSE @]
                  /\ \A other \in Ids \ {id} : GetResult(after, other) = GetResult(results, other)
             ELSE after = results /\ GetResult(after, id) = NoResult
    /\ \A id \in DOMAIN results : results[id].transaction_id = id

C15_Witness ==
    \E u, v \in Tasks :
        /\ GetResult(results, TransactionIdOf(u)) # NoResult
        /\ results[TransactionIdOf(u)].status = COMPLETED
        /\ Len(results[TransactionIdOf(u)].extracted_elements) > 0
        /\ GetResult(results, TransactionIdOf(v)) = NoResult
        /\ GetResult(results, FileIdOf(u)) = NoResult

\* C16: a step of the background task of one transaction leaves the stored
\* snapshot of every other transaction as it was, whatever the other tasks
\* have done or are in the middle of.
C16_StepsLeaveOtherTransactionsAlone ==
    [][\A u \in Tasks :
          pc'[u] # pc[u] =>
              \A id \in DOMAIN results \ {TransactionIdOf(u)} :
                  HasResult(results', id) /\ results'[id] = results[id]]_vars

C16_Witness ==
    \E u, v \in Tasks :
        /\ pc[u] = "structure_llm" /\ pc[v] = "store_body"
        /\ results[TransactionIdOf(u)].status = STRUCTURING
        /\ results[TransactionIdOf(v)].status = STORING

\* C12: when the put of the final snapshot does not succeed, the
\* transaction does not end COMPLETED: it ends FAILED.
C12_FailedPutIsSurfaced ==
    \A u \in Tasks :
        (pc[u] = "done" /\ ~raised[u] /\ ~StoreResultOk(writable)) =>
            /\ HasResult(results, TransactionIdOf(u))
            /\ results[TransactionIdOf(u)].status = FAILED

\* C13: a snapshot whose status is FAILED is immutable: no later operation,
\* a correction submission for its transaction id included, changes its
\* elements or its log
C13_FailedSnapshotIsImmutable ==
    [][\A id \in DOMAIN results :
           results[id].status = FAILED =>
               /\ HasResult(results', id)
               /\ results'[id] = results[id]]_vars

\* the correction of the request that is applied last to the element named
LastCorrectionFor(request, element_id) ==
    request[CHOOSE k \in 1..Len(request) :
                /\ request[k].element_id = element_id
                /\ \A j \in (k + 1)..Len(request) : request[j].element_id # element_id]

\* what a correction request may and may not change in a result
CorrectionFrame(before, after, request) ==
    LET named == {request[k].element_id : k \in 1..Len(request)}
        old == before.extracted_elements
        new == after.extracted_elements
    IN /\ after.status = before.status
       /\ after.transaction_id = before.transaction_id
       /\ Len(new) = Len(old)
       /\ \A i \in 1..Len(old) :
              /\ new[i].id = old[i].id
              /\ old[i].id \notin named => new[i] = old[i]
              /\ old[i].id \in named =>
                     /\ new[i].content = LastCorrectionFor(request, old[i].id).corrected_content
                     /\ new[i].validated
                     /\ new[i].corrections.present
                     /\ new[i].corrections.corrected_at
                     /\ new[i].parent_id = old[i].parent_id
                     /\ new[i].children_ids = old[i].children_ids

\* C14: a correction submitted for a COMPLETED transaction changes only the
\* elements the request names: each gets the corrected content, is marked
\* validated and gets a correction timestamp; the status, the element ids and
\* every other element stay as they were, and a request that names an unknown
\* element id changes no element
C14_CorrectionChangesOnlyNamedElements ==
    [][corrections' # corrections =>
           \A id \in DOMAIN results :
               results[id].status = COMPLETED =>
                   /\ HasResult(results', id)
                   /\ \/ results'[id] = results[id]
                      \/ \E request \in CorrectionRequests :
                             /\ results'[id] = Corrected(results[id], request)
                             /\ CorrectionFrame(results[id], results'[id], request)]_vars

\* a COMPLETED result with a corrected element next to an element that no
\* request named and that validation rejected
C14_Witness ==
    \E id \in DOMAIN results :
        LET elements == results[id].extracted_elements
        IN /\ results[id].status = COMPLETED
           /\ corrections > 0
           /\ \E i \in 1..Len(elements) :
                  /\ elements[i].corrections.present
                  /\ elements[i].content = StrContent("fixed")
                  /\ elements[i].validated
           /\ \E j \in 1..Len(elements) :
                  /\ ~elements[j].corrections.present
                  /\ ~elements[j].validated

\* the ids a sequence of ids holds
IdsOf(ids) == {ids[k] : k \in 1..Len(ids)}

\* children and parents exist in the list, and e is a child of p exactly when
\* p is the parent of e
Wired(elements) ==
    LET present == {elements[i].id : i \in 1..Len(elements)}
    IN /\ \A i \in 1..Len(elements) :
              /\ IdsOf(elements[i].children_ids) \subseteq present
              /\ elements[i].parent_id # NoId => elements[i].parent_id \in present
       /\ \A i, j \in 1..Len(elements) :
              elements[j].id \in IdsOf(elements[i].children_ids)
                  <=> elements[j].parent_id = elements[i].id

\* C17: in every snapshot persisted with elements, every child id and every
\* parent id names an element of the same snapshot, and the wiring is
\* symmetric
C17_PersistedTreeIsWired ==
    \A id \in DOMAIN results :
        Len(results[id].extracted_elements) > 0 => Wired(results[id].extracted_elements)

\* the page of a fragment, 1 when the fragment names none
PageOfFrag(frag) == IF frag.page = 0 THEN 1 ELSE frag.page

\* the id of the element built from the i-th fragment: its type, its page
\* and its rank among the fragments of that type on that page
ChildIdOf(raw, i) ==
    <<raw[i].type, PageOfFrag(raw[i]),
      Cardinality({j \in 1..(i - 1) :
                      /\ PageOfFrag(raw[j]) = PageOfFrag(raw[i])
                      /\ raw[j].type = raw[i].type})>>

\* tree has one page element per page of raw, whose children are exactly
\* the elements of the fragments of that page, one per fragment
OnePagePerPageNumber(raw, tree) ==
    LET pages == {PageOfFrag(raw[i]) : i \in 1..Len(raw)}
        pageEls(p) == {k \in 1..Len(tree) :
                          tree[k].type = "page" /\ tree[k].page_number = p}
        frags(p) == {i \in 1..Len(raw) : PageOfFrag(raw[i]) = p}
    IN /\ \A k \in 1..Len(tree) : tree[k].page_number \in pages
       /\ Len(tree) = Cardinality(pages) + Len(raw)
       /\ \A p \in pages :
              /\ Cardinality(pageEls(p)) = 1
              /\ \A k \in pageEls(p) :
                     /\ Len(tree[k].children_ids) = Cardinality(frags(p))
                     /\ IdsOf(tree[k].children_ids) = {ChildIdOf(raw, i) : i \in frags(p)}
                     /\ \A i \in frags(p) :
                            \E m \in 1..Len(tree) :
                                /\ tree[m].id = ChildIdOf(raw, i)
                                /\ tree[m].type = raw[i].type
                                /\ tree[m].parent_id = tree[k].id
                                /\ tree[m].page_number = p
                                /\ tree[m].content =
                                       IF raw[i].type = "text" THEN StrContent(raw[i].text)
                                       ELSE DictContent(raw[i].rows)
                                /\ \A n \in 1..Len(tree) :
                                       tree[n].id = tree[m].id => n = m

Max(a, b) == IF a >= b THEN a ELSE b

\* a text content that is not a string with a character other than a blank
BlankText(content) == content.kind # "str" \/ content.text \in {"", " ", "  "}

\* the base rule, confidences in tenths, for one element before and after
BaseRule(old, new) ==
    /\ new.id = old.id
    /\ (old.type = "text" /\ BlankText(old.content)) => new.confidence = 3
    /\ (old.type = "text" /\ ~BlankText(old.content)) =>
           new.confidence = Max(old.confidence, 8)
    /\ (old.type = "table" /\ old.content.kind = "dict" /\ Len(old.content.rows) > 0) =>
           new.confidence = Max(old.confidence, 9)
    /\ (old.type = "table" /\ ~(old.content.kind = "dict" /\ Len(old.content.rows) > 0)) =>
           new.confidence = 4
    /\ old.type = "page" => new.confidence = 10
    /\ new.validated <=> new.confidence >= 7

\* C19: after the base validation rule a text element with empty or blank
\* content has confidence 0.3, any other text element max(previous, 0.8), a
\* table with rows max(previous, 0.9) and one without 0.4, a page element
\* 1.0, and an element is validated exactly when its confidence is at least
\* the threshold 0.7
C19_BaseValidationRule ==
    [][\A u \in Tasks :
           (pc[u] = "validate_body" /\ pc'[u] = "highlight") =>
               LET old == state[u].extracted_elements
                   new == state'[u].extracted_elements
               IN /\ Len(new) = Len(old)
                  /\ \A i \in 1..Len(old) : BaseRule(old[i], new[i])]_vars

\* a validated tree with a blank text at 0.3, an OCR text that kept its 0.9,
\* a table without rows at 0.4 and a page element
C19_Witness ==
    \E u \in Tasks :
        LET elements == state[u].extracted_elements
        IN /\ pc[u] = "highlight"
           /\ \E i, j, k, l \in 1..Len(elements) :
                  /\ elements[i].type = "text" /\ elements[i].confidence = 3
                  /\ ~elements[i].validated
                  /\ elements[j].type = "text" /\ elements[j].confidence = 9
                  /\ elements[j].validated
                  /\ elements[k].type = "table" /\ elements[k].confidence = 4
                  /\ ~elements[k].validated
                  /\ elements[l].type = "page" /\ elements[l].confidence = 10
                  /\ elements[l].validated

\* C20: when the reasoning service is available and its validation response
\* carries a confidence for an element id of the tree, that element ends with
\* the response's confidence and is validated exactly when that value is at
\* least the threshold
C20_ServiceConfidenceOverridesLocal ==
    \A u \in Tasks :
        (pc[u] = "highlight" /\ validationCall[u].available) =>
            LET elements == state[u].extracted_elements
                reply == validationCall[u].reply
            IN \A i \in 1..Len(elements), k \in 1..Len(reply) :
                   reply[k].id = elements[i].id =>
                       /\ elements[i].confidence = reply[k].confidence
                       /\ elements[i].validated <=>
                              reply[k].confidence >= ConfidenceThreshold

\* the number of elements that satisfy Test
CountIf(elements, Test(_)) == Len(SelectSeq(elements, Test))

\* the summary of a result counts the elements of that result
SummaryMatches(result) ==
    LET elements == result.extracted_elements
        summary == result.structured_data
    IN /\ summary.present
       /\ summary.total_elements = Len(elements)
       /\ summary.text_elements = CountIf(elements, LAMBDA e : e.type = "text")
       /\ summary.table_elements = CountIf(elements, LAMBDA e : e.type = "table")
       /\ summary.validated_elements = CountIf(elements, LAMBDA e : e.validated)

\* C21: in the snapshot persisted when a transaction becomes COMPLETED the
\* summary's total_elements, text_elements, table_elements and
\* validated_elements are the counts of the elements of that same snapshot
C21_SummaryCountsTheSnapshot ==
    [][\A id \in DOMAIN results' :
           (/\ results'[id].status = COMPLETED
            /\ ~(HasResult(results, id) /\ results[id].status = COMPLETED)) =>
               SummaryMatches(results'[id])]_vars

\* a COMPLETED snapshot of one page and two texts, one of them rejected:
\* total_elements is 3 and validated_elements is 2
C21_Witness ==
    \E id \in DOMAIN results :
        /\ results[id].status = COMPLETED
        /\ results[id].structured_data.total_elements = 3
        /\ results[id].structured_data.text_elements = 2
        /\ results[id].structured_data.validated_elements = 2
        /\ Len(results[id].extracted_elements) = 3

\* the chunk is made of more than one paragraph or sentence
SeveralUnits(chunk) ==
    \E i \in 1..(Len(chunk) - 1) :
        <<chunk[i], chunk[i + 1]>> \in {ParagraphSeparator, SentenceSeparator}

\* C22: every chunk of chunk_text that is made of more than one atomic unit
\* is at most max_chunk_size long; a longer chunk is a single sentence
C22_ChunksRespectTheSize ==
    (util.fn = "chunk_text" /\ util.returned) =>
        \A k \in 1..Len(util.chunks) :
            \/ Len(util.chunks[k]) <= util.max_chunk_size
            \/ ~SeveralUnits(util.chunks[k])

\* a text cut into several chunks, one of them two units joined by their
\* separator and exactly max_chunk_size long
C22_Witness ==
    /\ util.fn = "chunk_text"
    /\ util.returned
    /\ Len(util.chunks) >= 2
    /\ \E k \in 1..Len(util.chunks) :
           /\ SeveralUnits(util.chunks[k])
           /\ Len(util.chunks[k]) = util.max_chunk_size

\* the chunks joined by the separators chosen for the boundaries
RECURSIVE JoinChunks(_, _)
JoinChunks(chunks, separators) ==
    IF Len(chunks) = 0 THEN <<>>
    ELSE IF Len(chunks) = 1 THEN chunks[1]
    ELSE chunks[1] \o separators[1] \o JoinChunks(Tail(chunks), Tail(separators))

\* some choice of a paragraph separator, a sentence separator or nothing at
\* each boundary gives the text back
Reconstructs(text, chunks) ==
    \E separators \in [1..(Len(chunks) - 1) ->
                          {ParagraphSeparator, SentenceSeparator, <<>>}] :
        JoinChunks(chunks, separators) = text

\* C23: chunk_text never drops content: the chunks joined with the original
\* separators at the boundaries are the text
C23_ChunksReconstructTheText ==
    (util.fn = "chunk_text" /\ util.returned) => Reconstructs(util.text, util.chunks)

\* the chunks one after the other
RECURSIVE Flatten(_)
Flatten(chunks) ==
    IF Len(chunks) = 0 THEN <<>> ELSE Head(chunks) \o Flatten(Tail(chunks))

\* C24: the chunks of chunk_elements concatenated in order are the input
\* list: no element is lost, duplicated or moved
C24_ElementChunksConcatenateToInput ==
    (util.fn = "chunk_elements" /\ util.returned) => Flatten(util.chunks) = util.elements

\* a list cut at a page change before the chunk was full, and cut again
\* when a chunk was full
C24_Witness ==
    /\ util.fn = "chunk_elements"
    /\ util.returned
    /\ Len(util.chunks) >= 2
    /\ \E k \in 1..(Len(util.chunks) - 1) :
           /\ Len(util.chunks[k]) < util.max_elements_per_chunk
           /\ util.chunks[k][Len(util.chunks[k])].page_number
                  # util.chunks[k + 1][1].page_number

\* a value that is null or empty: an empty string, list or map
NullOrEmpty(value) ==
    \/ value.kind = "null"
    \/ value.kind = "str" /\ value.text = ""
    \/ value.kind = "list" /\ Len(value.items) = 0
    \/ value.kind = "map" /\ value.entries = NoEntries

\* the rules of the fold for one key: add, concatenate, merge, overwrite a
\* null or empty value, otherwise keep
RuleValue(acc, value) ==
    IF value.kind = "absent" THEN acc
    ELSE IF acc.kind = "absent" THEN value
    ELSE IF acc.kind = "list" /\ value.kind = "list" THEN List(acc.items \o value.items)
    ELSE IF acc.kind = "map" /\ value.kind = "map"
         THEN Map([k \in {"x", "y"} |->
                     IF value.entries[k] # 0 THEN value.entries[k] ELSE acc.entries[k]])
    ELSE IF NullOrEmpty(acc) THEN value
    ELSE acc

RECURSIVE RuleFold(_, _)
RuleFold(acc, partials) ==
    IF Len(partials) = 0 THEN acc
    ELSE RuleFold([key \in {"a", "b"} |-> RuleValue(acc[key], Head(partials)[key])],
                  Tail(partials))

\* C25: the result of _merge_extraction_results is the left-to-right fold of
\* the rules: an absent key is added, two lists are concatenated, two maps
\* are merged with the later value winning, a null or empty value is
\* overwritten, any other value is kept
C25_MergeIsTheFoldOfTheRules ==
    (util.fn = "merge" /\ util.returned) =>
        util.merged = RuleFold(Head(util.results), Tail(util.results))

\* the step serves a request of one of the routes named
Serves(routes) == util' # util /\ util'.fn \in routes

\* C26: a delete request for a transaction id that has no stored result
\* reports 'Transaction not found' (404) and leaves the store unchanged
C26_DeleteOfUnknownIdIsNotFound ==
    [][(Serves({"delete_result"}) /\ ~HasResult(results, util'.transaction_id)) =>
           /\ util'.reply = TransactionNotFound
           /\ results' = results]_vars

\* C27: a status query, result query, grounding query or correction
\* submission for a transaction id that has no stored result reports
\* 'Transaction not found' (404), and the store is the same before and
\* after the call
C27_UnknownIdIsNotFoundAndCreatesNothing ==
    [][(/\ Serves({"get_processing_status", "get_processing_result",
                   "get_visual_grounding", "submit_corrections"})
        /\ ~HasResult(results, util'.transaction_id)) =>
           /\ util'.reply = TransactionNotFound
           /\ results' = results]_vars

\* a correction submitted under the id the upload returned, which names no
\* stored result, while the store holds the result of that upload
C27_Witness ==
    /\ util.fn = "submit_corrections"
    /\ util.reply = TransactionNotFound
    /\ corrections > 0
    /\ \E u \in Tasks :
           /\ util.transaction_id = FileIdOf(u)
           /\ HasResult(results, TransactionIdOf(u))
           /\ ~HasResult(results, FileIdOf(u))

StageEntry ==
    [status \in {PARSING, STRUCTURING, VALIDATING, HIGHLIGHTING, STORING} |->
        StageStartLines[Rank(status) - Rank(PARSING) + 1]]

HasLine(log, line) == \E k \in 1..Len(log) : log[k] = line

\* C28: whenever the persisted status of a transaction is PARSING,
\* STRUCTURING, VALIDATING, HIGHLIGHTING or STORING, the persisted log of
\* that transaction already contains the entry of that stage.
C28_StageEntryPersistedWithStatus ==
    \A id \in DOMAIN results :
        results[id].status \in DOMAIN StageEntry =>
            HasLine(results[id].processing_log, StageEntry[results[id].status])


\* the invocation of chunk i has ended in this step
Completes(i) == task[i] = "running" /\ task'[i] # "running"

\* C29: after a worker invocation completes, whether it returned or
\* raised, the slot it held is not released before the pacing delay is
\* over: the step in which the invocation completes frees no slot and
\* starts no waiting task.
C29_SlotHeldThroughTheDelay ==
    [][\A i \in Chunks :
          Completes(i) =>
              /\ task'[i] = "sleeping"
              /\ semaphore' = semaphore
              /\ waiters' = waiters]_vars

\* chunk i stands before chunk j in the sequence
Precedes(i, j, seq) ==
    \E a, b \in 1..Len(seq) : a < b /\ seq[a] = i /\ seq[b] = j

\* the tasks that have finished, in the order in which they are or will
\* be found in the returned list
Order == sched_results \o completed

IsPermutationOfChunks(seq) ==
    /\ Len(seq) = total_chunks
    /\ {seq[k] : k \in 1..Len(seq)} = Chunks

\* C30: when all workers succeed, the call returns exactly one result per
\* chunk, in completion order: a task that finishes stands after every task
\* that finished before it, the order of finished tasks never changes, a
\* result is only ever appended, and the list returned holds each chunk once.
C30_ResultsInCompletionOrder ==
    [][(\A i \in Chunks : task'[i] # "raised") =>
          /\ \A j \in Chunks :
                (task[j] = "sleeping" /\ task'[j] = "returned") =>
                    \A i \in Chunks \ {j} :
                        task[i] = "returned" =>
                            /\ Precedes(i, j, sched_results' \o completed')
                            /\ ~Precedes(j, i, sched_results' \o completed')
          /\ \A i, j \in Chunks :
                Precedes(i, j, Order) => Precedes(i, j, sched_results' \o completed')
          /\ IsPrefix(sched_results, sched_results')
          /\ (caller' = "returned" /\ caller = "collecting") =>
                IsPermutationOfChunks(sched_results')]_vars

\* the call has returned the results of three chunks in an order that is
\* not the order of submission
C30_Witness ==
    /\ caller = "returned"
    /\ \A i \in Chunks : task[i] = "returned"
    /\ total_chunks = 3
    /\ sched_results[1] # 1


\* the tasks inside `async with semaphore`
Holders == {i \in Chunks : task[i] \in {"running", "sleeping"}}

InSeq(i, seq) == \E k \in 1..Len(seq) : seq[k] = i

\* C31: with max_concurrent = 1 no two worker invocations overlap, and the
\* results are in the order in which the workers were executed one after
\* another: when the task of a chunk finishes, every other task has either
\* run to its end before, and its result stands earlier, or has not begun
\* to run, and has no result yet.
C31_SerialWhenOneSlot ==
    [][(max_concurrent = 1 /\ \A i \in Chunks : task'[i] # "raised") =>
          /\ Cardinality(Holders) <= 1
          /\ \A j \in Chunks :
                (task[j] = "sleeping" /\ task'[j] = "returned") =>
                    \A i \in Chunks \ {j} :
                        \/ /\ task[i] = "returned"
                           /\ Precedes(i, j, sched_results' \o completed')
                        \/ /\ task[i] \in {"created", "waiting"}
                           /\ ~InSeq(i, sched_results' \o completed')]_vars

\* one slot, three chunks, all returned, the first result not of chunk 1
C31_Witness ==
    /\ max_concurrent = 1
    /\ total_chunks = 3
    /\ caller = "returned"
    /\ Len(sched_results) = 3
    /\ sched_results[1] = 3


\* chunk_elements has returned from a list longer than the limit
SplitCall ==
    /\ util.fn = "chunk_elements"
    /\ util.returned
    /\ Len(util.elements) > util.max_elements_per_chunk

\* two neighbours on different pages share a chunk that held m elements
\* when the second one came
PageChangeInside(chunk, m) ==
    /\ m < Len(chunk)
    /\ chunk[m].page_number # chunk[m + 1].page_number

\* C32 as stated: a new chunk starts at every page change that finds at
\* least 80% of max_elements_per_chunk elements in the current chunk.
C32_NewChunkAtPageChangeFrom80Percent ==
    SplitCall =>
        \A k \in 1..Len(util.chunks) : \A m \in 1..Len(util.chunks[k]) :
            PageChangeInside(util.chunks[k], m) =>
                ~(10 * m >= 8 * util.max_elements_per_chunk)

\* C32, amended: a new chunk starts at every page change that finds more
\* than 80% of max_elements_per_chunk elements in the current chunk (for a
\* limit of 20: at 17 or more).
C32_NewChunkAtPageChangeAbove80Percent ==
    SplitCall =>
        \A k \in 1..Len(util.chunks) : \A m \in 1..Len(util.chunks[k]) :
            PageChangeInside(util.chunks[k], m) =>
                ~(10 * m > 8 * util.max_elements_per_chunk)

\* a chunk closed below the limit at a page change
C32_Witness ==
    /\ SplitCall
    /\ \E k \in 1..(Len(util.chunks) - 1) :
          LET chunk == util.chunks[k]
              next == util.chunks[k + 1]
          IN  /\ Len(chunk) < util.max_elements_per_chunk
              /\ 10 * Len(chunk) > 8 * util.max_elements_per_chunk
              /\ chunk[Len(chunk)].page_number # next[1].page_number


\* _merge_extraction_results has returned from the same partial map twice
SameTwice ==
    /\ util.fn = "merge"
    /\ util.returned
    /\ Len(util.results) = 2
    /\ util.results[1] = util.results[2]

HasItems(p) == \E key \in DOMAIN p : p[key].kind = "list" /\ Len(p[key].items) > 0

\* C33 as stated: merging [p, p] gives the same result as merging [p],
\* for every partial map p.
C33_MergeIsIdempotent ==
    SameTwice => util.merged = MergeExtractionResults(<<util.results[1]>>)

\* C33, amended: merging [p, p] gives the same result as merging [p] for
\* every partial map p that holds no list with items.
C33_MergeIsIdempotentButForLists ==
    (SameTwice /\ ~HasItems(util.results[1])) =>
        util.merged = MergeExtractionResults(<<util.results[1]>>)

\* a partial map with a number and a map, merged with itself
C33_Witness ==
    /\ SameTwice
    /\ ~HasItems(util.results[1])
    /\ util.results[1]["a"].kind = "num"
    /\ util.results[1]["b"].kind = "map"
    /\ util.results[1]["b"].entries # NoEntries
    /\ util.merged = util.results[1]


\* the element the structuring stage built from the i-th fragment
BuiltFrom(raw, tree, i) == CHOOSE e \in {tree[m] : m \in 1..Len(tree)} : e.id = ChildIdOf(raw, i)

\* boxes in hundredths, confidences in tenths
DefaultsApplied(raw, tree) ==
    \A i \in 1..Len(raw) :
        LET frag == raw[i]
            e == BuiltFrom(raw, tree, i)
        IN /\ (frag.type = "table" /\ ~frag.has_bbox) =>
                  e.bounding_box = BoundingBox(10, 10, 80, 30)
           /\ frag.type = "table" => e.confidence = 9
           /\ (frag.type = "text" /\ ~frag.has_bbox) =>
                  e.bounding_box.width = 10 /\ e.bounding_box.height = 5
           /\ (frag.type = "text" /\ ~frag.has_confidence) => e.confidence = 8

\* C34: a table fragment without a bounding box gives a table element with
\* the box x=0.1, y=0.1, width=0.8, height=0.3 and confidence 0.9; a text
\* fragment without a box gives width 0.1 and height 0.05, and without a
\* confidence the confidence 0.8.
C34_DefaultBoxesAndConfidences ==
    \A u \in Tasks :
        pc[u] = "structure_llm" =>
            DefaultsApplied(state[u].raw_elements, state[u].extracted_elements)


\* the task of upload u has stored its first record, and the store holds
\* no record of it: the record was deleted
Deleted(u) ==
    /\ pc[u] \notin {"idle", "start"}
    /\ ~HasResult(results, TransactionIdOf(u))

\* C35: once delete_result has removed a transaction, the store holds no
\* record of it in any later state: no step finds the record of a started
\* task absent and leaves it present.
C35_DeletedStaysDeleted ==
    [][\A u \in Tasks : Deleted(u) => ~HasResult(results', TransactionIdOf(u))]_vars


RECURSIVE SumOver(_, _)
SumOver(f, set) ==
    IF set = {} THEN 0
    ELSE LET x == CHOOSE y \in set : TRUE IN f[x] + SumOver(f, set \ {x})

\* calls of the reasoning service in flight, over all transactions
InFlightEverywhere == SumOver([u \in Tasks |-> calls[u].in_flight], Tasks)

\* C36: with several transactions running in parallel the number of
\* reasoning-service calls in flight across all transactions never exceeds
\* the max_concurrent of the structure enhancement.
C36_CeilingHoldsAcrossTransactions == InFlightEverywhere <= StructureMaxConcurrent


\* the service was called and gave every chunk back unchanged
AllEchoed(call) ==
    /\ call.made
    /\ \A i \in 1..Len(call.outcomes) : call.outcomes[i] = "echo"

\* C37: if the reasoning service returns every element chunk unchanged
\* during structure enhancement, the elements held after the enhancement
\* are the elements given to it, in the same order, for any number of chunks.
C37_EchoedChunksKeepTheirOrder ==
    \A u \in Tasks :
        (pc[u] = "validate" /\ AllEchoed(llmCall[u])) =>
            state[u].extracted_elements = LocalTree[state[u].raw_elements]


\* C38: in every persisted snapshot with status COMPLETED, also those
\* written by correction submissions, the summary's validated_elements is
\* the number of validated elements and text_elements and table_elements
\* are the numbers of elements of those types.
C38_SummaryFollowsCorrections ==
    \A id \in DOMAIN results :
        results[id].status = COMPLETED => SummaryMatches(results[id])


\* the backup an element should carry after a step, given the element before
BackupOf(element) ==
    IF element.corrections.present THEN element.corrections.original_content
    ELSE element.content

\* C39: after any sequence of corrections applied to the same element its
\* corrections.original_content is the content it had before its first
\* correction: a correction request leaves the backup of an element
\* corrected before as it was, and gives an element corrected for the
\* first time the content found as backup.
C39_OriginalContentIsKept ==
    [][corrections' # corrections =>
          \A id \in DOMAIN results :
              LET before == results[id].extracted_elements
                  after == results'[id].extracted_elements
              IN /\ Len(after) = Len(before)
                 /\ \A k \in 1..Len(before) :
                       after[k].corrections.present =>
                           after[k].corrections.original_content = BackupOf(before[k])]_vars

\* two requests served, an element corrected to "fixed" and then to "again",
\* its backup the text the extractor found
C39_Witness ==
    /\ corrections = 2
    /\ \E id \in DOMAIN results :
          \E k \in 1..Len(results[id].extracted_elements) :
              LET e == results[id].extracted_elements[k]
              IN /\ e.corrections.present
                 /\ e.content = StrContent("again")
                 /\ e.corrections.original_content = StrContent("abc")

====
